---- MODULE Spec2Model ----
(***************************************************************************)
(* Retrieval-augmented conversational pipeline of the board-management     *)
(* backend: vector index (write path and similarity search), session       *)
(* store, and the two streaming orchestrators (ChatService, direct         *)
(* streaming; ChatServiceSDK, agent tool loop).                            *)
(*                                                                         *)
(* The relational database is the shared state.  Every db.commit() of the  *)
(* source is one atomic step of the model; a query reads the committed     *)
(* state in one step.  Requests of other workers and of the thread pool    *)
(* (the synchronous endpoints of api/chat.py) interleave between steps.    *)
(*                                                                         *)
(* Similarities are integers in hundredths (Scale = 100 stands for 1.0).   *)
(* The vectors of the model have integer magnitudes, so the quotient the   *)
(* code computes is exact in hundredths.                                   *)
(***************************************************************************)
EXTENDS Integers, Sequences, FiniteSets, TLC

\* ---------------------------------------------------------------- bounds
MaxStore == 4      \* chunks in an index handed to the search specification
MaxLimit == 2      \* largest limit a search is called with
MaxChunks == 2     \* chunks a source text is cut into
MaxSessions == 2   \* chat sessions ever created
BatchSize == 1              \* batch_size of generate_embeddings_batch, scaled down
MaxDeltas == 2     \* text deltas / text blocks the provider produces per request

\* ------------------------------------------------------------- constants
Scale == 100                \* 1.0 in hundredths
NaNDist == 1000             \* pgvector's NaN distance: sorts after every number
DirectLimit == 5            \* retrieve_relevant_documents(..., limit=5)
DirectMinScore == 50        \* min_score=0.5 of the direct mode
NULL == 0                   \* an absent timestamp / id (times and ids start at 1)

None == << >>               \* an absent embedding

\* ---------------------------------------------------------------- state
VARIABLES
  chunks,      \* document_chunks rows
  nextChunkId, \* next primary key of document_chunks
  proc,        \* process_document requests
  documentRows,   \* documents rows: the stored extracted_text of each document
  searchRes,   \* the latest search_similar_chunks call and its result
  prevSearch,  \* the search before it
  sessions,    \* chat_sessions rows
  nextSessionId, \* next primary key of chat_sessions
  messages,    \* chat_messages rows
  clock,       \* database time
  req,         \* chat requests (stream_chat_response generators)
  ret,         \* the latest delete_session call and its return value
  call         \* the tool calls of an agent turn; the call of a pure function

vars == <<chunks, nextChunkId, proc, documentRows, searchRes, prevSearch,
          sessions, nextSessionId, messages, clock, req, ret, call>>

indexVars == <<chunks, nextChunkId, proc, documentRows>>
searchVars == <<searchRes, prevSearch>>
chatVars == <<sessions, nextSessionId, messages, clock, req, ret>>
callVars == <<call>>

\* No call of a tool or of a pure function under way
NoCall == [fn |-> "none"]

\* ------------------------------------------------------------- sequences
Range(s) == {s[i] : i \in 1..Len(s)}

Min(a, b) == IF a <= b THEN a ELSE b

Take(s, n) == SubSeq(s, 1, Min(n, Len(s)))

\* ------------------------------------------------------------- vectors
Vecs == {<<1, 0>>, <<0, 1>>, <<3, 4>>, <<4, 3>>, <<0, 0>>, <<-1, 0>>}

RECURSIVE DotUpTo(_, _, _)
DotUpTo(a, b, n) == IF n = 0 THEN 0 ELSE a[n] * b[n] + DotUpTo(a, b, n - 1)

\* sum(a * b for a, b in zip(vec1, vec2)), for vectors of equal length
Dot(a, b) == DotUpTo(a, b, Len(a))

\* x ** 0.5 on the sums of squares of Vecs
Sqrt(n) == CHOOSE r \in 0..n : r * r = n

\* EmbeddingService._cosine_similarity, in hundredths
CosineSimilarity(vec1, vec2) ==
  IF Len(vec1) # Len(vec2) THEN 0
  ELSE LET dot_product == Dot(vec1, vec2)
           magnitude1 == Sqrt(Dot(vec1, vec1))
           magnitude2 == Sqrt(Dot(vec2, vec2))
       IN IF magnitude1 = 0 \/ magnitude2 = 0 THEN 0
          ELSE (Scale * dot_product) \div (magnitude1 * magnitude2)

\* pgvector's embedding <=> q: 1 - cosine, NaN when a magnitude is zero
CosineDistance(e, q) ==
  IF Dot(e, e) = 0 \/ Dot(q, q) = 0 THEN NaNDist
  ELSE Scale - (Scale * Dot(e, q)) \div (Sqrt(Dot(e, e)) * Sqrt(Dot(q, q)))

\* ---------------------------------------------------- similarity search
\* A document_chunks row.  page_number is never set by process_document.
Chunk(id, document_id, content, chunk_index, embedding) ==
  [id |-> id, document_id |-> document_id, content |-> content,
   chunk_index |-> chunk_index, page_number |-> NULL, embedding |-> embedding]

\* The rows the query selects: optional document filter, embedding not null
Candidates(store, document_ids) ==
  {c \in store : /\ (document_ids = {} \/ c.document_id \in document_ids)
                 /\ c.embedding # None}

\* ORDER BY embedding <=> q: every order of the rows that ascends in
\* distance; the store decides the order of equally distant rows
RECURSIVE StoreOrders(_, _)
StoreOrders(cands, q) ==
  IF cands = {} THEN {<< >>}
  ELSE LET nearest == {c \in cands : \A d \in cands :
                         CosineDistance(c.embedding, q) <= CosineDistance(d.embedding, q)}
       IN UNION {{<<c>> \o rest : rest \in StoreOrders(cands \ {c}, q)} : c \in nearest}

\* The filtering loop: keep (chunk, similarity) with similarity >= min_score
RECURSIVE ScoreAndFilter(_, _, _)
ScoreAndFilter(all_chunks, q, min_score) ==
  IF all_chunks = << >> THEN << >>
  ELSE LET chunk == Head(all_chunks)
           similarity == CosineSimilarity(q, chunk.embedding)
           rest == ScoreAndFilter(Tail(all_chunks), q, min_score)
       IN IF chunk.embedding # None /\ similarity >= min_score
          THEN <<[chunk |-> chunk, similarity |-> similarity]>> \o rest
          ELSE rest

\* list.sort(key=similarity, reverse=True) is stable: x goes after every
\* element whose similarity is at least its own
RECURSIVE InsertDesc(_, _)
InsertDesc(sorted, x) ==
  IF sorted = << >> THEN <<x>>
  ELSE IF Head(sorted).similarity >= x.similarity
       THEN <<Head(sorted)>> \o InsertDesc(Tail(sorted), x)
       ELSE <<x>> \o sorted

RECURSIVE SortDesc(_)
SortDesc(results) ==
  IF results = << >> THEN << >>
  ELSE InsertDesc(SortDesc(SubSeq(results, 1, Len(results) - 1)), results[Len(results)])

\* SearchOnOrder without the final results[:limit]
SearchOnOrderNoSlice(order, q, limit, min_score) ==
  SortDesc(ScoreAndFilter(Take(order, limit * 2), q, min_score))

\* What one store order yields: LIMIT limit * 2, filter, sort, results[:limit]
SearchOnOrder(order, q, limit, min_score) ==
  Take(SortDesc(ScoreAndFilter(Take(order, limit * 2), q, min_score)), limit)

\* EmbeddingService.search_similar_chunks: the results the call can return
SearchSimilarChunks(store, q, limit, min_score, document_ids) ==
  {SearchOnOrder(order, q, limit, min_score) :
     order \in StoreOrders(Candidates(store, document_ids), q)}

\* --------------------------------------------- the search specification
\* Indexes a search can meet: ids 1..n, the odd rows of document 1 and the
\* even rows of document 2, chunk_index counting from 0 within a document
StoreEmbeddings == {<<1, 0>>, <<3, 4>>, <<-1, 0>>, <<0, 0>>, None}

StoreOf(n, emb) ==
  {Chunk(i, IF i % 2 = 1 THEN 1 ELSE 2, i, (i - 1) \div 2, emb[i]) : i \in 1..n}

Stores ==
  UNION {{StoreOf(n, emb) : emb \in [1..n -> StoreEmbeddings]} : n \in 0..MaxStore}

Queries == {<<1, 0>>, <<3, 4>>}
MinScores == {0, DirectMinScore}
Filters == {{}, {1}}

NoSearch ==
  [called |-> FALSE, query |-> None, limit |-> 0, min_score |-> 0,
   document_ids |-> {}, result |-> << >>]

SearchCall(q, limit, min_score, document_ids, result) ==
  [called |-> TRUE, query |-> q, limit |-> limit, min_score |-> min_score,
   document_ids |-> document_ids, result |-> result]

\* A call of search_similar_chunks on the current index
Search(q, limit, min_score, document_ids) ==
  /\ ~searchRes.called
  /\ \E result \in SearchSimilarChunks(chunks, q, limit, min_score, document_ids) :
       searchRes' = SearchCall(q, limit, min_score, document_ids, result)
  /\ prevSearch' = NoSearch
  /\ UNCHANGED <<callVars, indexVars, chatVars>>

\* The same call once more, the index unchanged
SearchAgain ==
  /\ searchRes.called
  /\ ~prevSearch.called
  /\ \E result \in SearchSimilarChunks(chunks, searchRes.query, searchRes.limit,
                                       searchRes.min_score, searchRes.document_ids) :
       searchRes' = [searchRes EXCEPT !.result = result]
  /\ prevSearch' = searchRes
  /\ UNCHANGED <<callVars, indexVars, chatVars>>

NoRet == [op |-> "none", session_id |-> NULL, user_id |-> NULL, result |-> FALSE]

InitSearch ==
  /\ chunks \in Stores
  /\ nextChunkId = MaxStore + 1
  /\ documentRows = [d \in {} |-> 0]
  /\ proc = [p \in {} |-> 0]
  /\ searchRes = NoSearch
  /\ prevSearch = NoSearch
  /\ sessions = {}
  /\ nextSessionId = 1
  /\ messages = {}
  /\ clock = 1
  /\ req = [r \in {} |-> 0]
  /\ ret = NoRet
  /\ call = NoCall

NextSearch ==
  \/ \E q \in Queries, limit \in 1..MaxLimit, min_score \in MinScores, document_ids \in Filters :
       Search(q, limit, min_score, document_ids)
  \/ SearchAgain

SpecSearch == InitSearch /\ [][NextSearch]_vars

\* ---- C9 ----
\* C9: search_similar_chunks(query, limit=k, min_score=m) returns no chunk
\* whose similarity is below m, at most k results, and the results in
\* non-increasing order of similarity; every returned similarity is the
\* cosine of the query and the chunk's embedding.
C9_FloorLimitOrder ==
  searchRes.called =>
    LET res == searchRes.result
    IN /\ Len(res) <= searchRes.limit
       /\ \A i \in 1..Len(res) :
            /\ res[i].chunk \in chunks
            /\ res[i].similarity = CosineSimilarity(searchRes.query, res[i].chunk.embedding)
            /\ res[i].similarity >= searchRes.min_score
       /\ \A i, j \in 1..Len(res) : i < j => res[i].similarity >= res[j].similarity

\* The case of C9: the floor, the limit and the sort all have something to
\* do: a candidate lies below the floor, more than limit candidates lie at
\* or above it, and the result holds two different similarities.
C9_Witness ==
  /\ searchRes.called
  /\ LET cands == Candidates(chunks, searchRes.document_ids)
         sim(c) == CosineSimilarity(searchRes.query, c.embedding)
     IN /\ \E c \in cands : sim(c) < searchRes.min_score
        /\ Cardinality({c \in cands : sim(c) >= searchRes.min_score}) > searchRes.limit
        /\ Len(searchRes.result) = searchRes.limit
        /\ Len(searchRes.result) >= 2
        /\ searchRes.result[1].similarity > searchRes.result[2].similarity

\* ---- C10 ----
\* C10: among results of equal similarity the order is ascending chunk id,
\* and the same search run twice against an unchanged index returns the
\* identical ordered list.
C10_TiesByIdDeterministic ==
  /\ searchRes.called =>
       \A i, j \in 1..Len(searchRes.result) :
         (i < j /\ searchRes.result[i].similarity = searchRes.result[j].similarity)
           => searchRes.result[i].chunk.id < searchRes.result[j].chunk.id
  /\ prevSearch.called => searchRes.result = prevSearch.result

\* ------------------------------------------------- document processing
DocIds == {1, 2}            \* the documents rows (uploaded, never deleted here)
\* Two process requests: a reprocessing and the earlier or concurrent one
Procs == {1, 2}

\* TextExtractionService.chunk_text as process_document consumes it: the
\* ordered chunks of the extracted text; chunk i of a text has content i
SourceChunks(n) == [i \in 1..n |-> i]

\* The extracted text a request holds, named by the chunks it is cut into
ExtractedText(source_chunks) == Len(source_chunks)

\* The provider's vector for a chunk text (input_type "document")
EmbeddingOf(content) == IF content % 2 = 1 THEN <<1, 0>> ELSE <<3, 4>>

\* How the provider call of one batch can end: the vectors, an empty
\* result.embeddings, an exception
BatchOutcomes == {"ok", "empty", "raises"}

\* range(0, len(texts), batch_size): the number of batches
NumBatches(n, batch_size) == (n + batch_size - 1) \div batch_size

\* What one batch adds to embeddings
BatchEmbeddings(batch, outcome) ==
  [i \in 1..Len(batch) |-> IF outcome = "ok" THEN EmbeddingOf(batch[i]) ELSE None]

\* generate_embeddings_batch that adds nothing for a batch that failed
RECURSIVE GenerateEmbeddingsBatchDropFailed(_, _, _)
GenerateEmbeddingsBatchDropFailed(texts, batch_size, outcomes) ==
  IF texts = << >> THEN << >>
  ELSE LET batch == Take(texts, batch_size)
       IN (IF Head(outcomes) = "ok" THEN BatchEmbeddings(batch, "ok") ELSE << >>)
            \o GenerateEmbeddingsBatchDropFailed(SubSeq(texts, Len(batch) + 1, Len(texts)),
                                                 batch_size, Tail(outcomes))

\* EmbeddingService.generate_embeddings_batch: batch after batch, the
\* vectors, or None for every text of a batch whose provider call fails or
\* returns nothing; outcomes[k] is how the call of batch k ends
RECURSIVE GenerateEmbeddingsBatch(_, _, _)
GenerateEmbeddingsBatch(texts, batch_size, outcomes) ==
  IF texts = << >> THEN << >>
  ELSE LET batch == Take(texts, batch_size)
       IN BatchEmbeddings(batch, Head(outcomes))
            \o GenerateEmbeddingsBatch(SubSeq(texts, Len(batch) + 1, Len(texts)),
                                       batch_size, Tail(outcomes))

ChunksOf(store, document_id) == {c \in store : c.document_id = document_id}

\* delete_chunks_for_document that keeps the first chunk of the document
DeleteAllButFirst(store, document_id) ==
  {c \in store : c.document_id # document_id \/ c.chunk_index = 0}

\* EmbeddingService.delete_chunks_for_document: the rows left
DeleteChunksForDocument(store, document_id) ==
  {c \in store : c.document_id # document_id}

\* store_chunk_with_embedding numbering the chunks from 1
StoreChunkFromOne(store, id, document_id, content, chunk_index, embedding) ==
  store \cup {Chunk(id, document_id, content, chunk_index + 1, embedding)}

\* EmbeddingService.store_chunk_with_embedding: the rows after its commit
StoreChunkWithEmbedding(store, id, document_id, content, chunk_index, embedding) ==
  store \cup {Chunk(id, document_id, content, chunk_index, embedding)}

IdleProc ==
  [pc |-> "idle", document_id |-> NULL, chunks |-> << >>,
   embeddings |-> << >>, idx |-> 0, prior |-> {}, old |-> {}, written |-> {},
   undisturbed |-> FALSE]

Active(p) == proc[p].pc \in {"delete", "embed", "store"}

\* process_document up to step 2: the document is found, its text is
\* extracted and cut into n chunks.  prior, old, written and undisturbed
\* are history: the rows of the document when the request began, the ids
\* its delete met, the ids it inserted, and whether no other request for
\* the document began since this one did or was under way when it began.
\* Requests are numbered in the order they begin.
ProcessBegin(p, document_id, n) ==
  /\ proc[p].pc = "idle"
  /\ p > 1 => proc[p - 1].pc # "idle"
  /\ proc' = [q \in Procs |->
       IF q = p
       THEN [IdleProc EXCEPT !.pc = "delete", !.document_id = document_id,
                             !.chunks = SourceChunks(n),
                             !.prior = ChunksOf(chunks, document_id),
                             !.undisturbed = \A o \in Procs \ {p} :
                                ~(Active(o) /\ proc[o].document_id = document_id)]
       ELSE IF proc[q].document_id = document_id
            THEN [proc[q] EXCEPT !.undisturbed = FALSE]
            ELSE proc[q]]
  /\ UNCHANGED <<callVars, chunks, nextChunkId, documentRows, searchVars, chatVars>>

\* A rejection that comes after the delete of the document's chunks
ProcessRejectedAfterDelete(p, document_id) ==
  /\ proc[p].pc = "idle"
  /\ p > 1 => proc[p - 1].pc # "idle"
  /\ chunks' = DeleteChunksForDocument(chunks, document_id)
  /\ proc' = [proc EXCEPT ![p] = [IdleProc EXCEPT !.pc = "rejected",
                                                  !.document_id = document_id]]
  /\ UNCHANGED <<callVars, nextChunkId, documentRows, searchVars, chatVars>>

\* extract_text reports an error or only whitespace: HTTP 422
ProcessRejected(p, document_id) ==
  /\ proc[p].pc = "idle"
  /\ p > 1 => proc[p - 1].pc # "idle"
  /\ proc' = [proc EXCEPT ![p] = [IdleProc EXCEPT !.pc = "rejected",
                                                  !.document_id = document_id]]
  /\ UNCHANGED <<callVars, chunks, nextChunkId, documentRows, searchVars, chatVars>>

\* Step 3: delete the existing chunks of the document, commit.  The commit
\* is the first of the request's session, so it also writes the
\* extracted_text assigned to the document before step 2.
ProcessDelete(p) ==
  /\ proc[p].pc = "delete"
  /\ chunks' = DeleteChunksForDocument(chunks, proc[p].document_id)
  /\ documentRows' = [documentRows EXCEPT
                     ![proc[p].document_id].extracted_text = ExtractedText(proc[p].chunks)]
  /\ proc' = [proc EXCEPT ![p].pc = "embed",
                          ![p].old = {c.id : c \in ChunksOf(chunks, proc[p].document_id)}]
  /\ UNCHANGED <<callVars, nextChunkId, searchVars, chatVars>>

\* Step 4: the embeddings, or None for every chunk when the request's
\* generate_embeddings flag, read here for the first time, is false
ProcessEmbed(p, generate_embeddings) ==
  /\ proc[p].pc = "embed"
  /\ \E outcomes \in [1..NumBatches(Len(proc[p].chunks), BatchSize) -> {"ok", "raises"}] :
       proc' = [proc EXCEPT ![p].pc = "store",
                            ![p].embeddings =
                               IF generate_embeddings
                               THEN GenerateEmbeddingsBatch(proc[p].chunks, BatchSize, outcomes)
                               ELSE [i \in 1..Len(proc[p].chunks) |-> None]]
  /\ UNCHANGED <<callVars, chunks, nextChunkId, documentRows, searchVars, chatVars>>

\* A loop turn that passes over a chunk whose embedding is None
ProcessStoreSkipNull(p) ==
  /\ proc[p].pc = "store"
  /\ proc[p].idx < Min(Len(proc[p].chunks), Len(proc[p].embeddings))
  /\ IF proc[p].embeddings[proc[p].idx + 1] = None
     THEN /\ proc' = [proc EXCEPT ![p].idx = @ + 1]
          /\ UNCHANGED <<chunks, nextChunkId>>
     ELSE /\ chunks' = StoreChunkWithEmbedding(chunks, nextChunkId, proc[p].document_id,
                                               proc[p].chunks[proc[p].idx + 1], proc[p].idx,
                                               proc[p].embeddings[proc[p].idx + 1])
          /\ nextChunkId' = nextChunkId + 1
          /\ proc' = [proc EXCEPT ![p].idx = @ + 1, ![p].written = @ \cup {nextChunkId}]
  /\ UNCHANGED <<callVars, documentRows, searchVars, chatVars>>

\* Step 5, one turn of the loop: store chunk idx and commit
ProcessStore(p) ==
  /\ proc[p].pc = "store"
  /\ proc[p].idx < Min(Len(proc[p].chunks), Len(proc[p].embeddings))
  /\ chunks' = StoreChunkWithEmbedding(chunks, nextChunkId, proc[p].document_id,
                                       proc[p].chunks[proc[p].idx + 1], proc[p].idx,
                                       proc[p].embeddings[proc[p].idx + 1])
  /\ nextChunkId' = nextChunkId + 1
  /\ proc' = [proc EXCEPT ![p].idx = @ + 1, ![p].written = @ \cup {nextChunkId}]
  /\ UNCHANGED <<callVars, documentRows, searchVars, chatVars>>

\* The loop is over: final commit, status "completed"
ProcessFinish(p) ==
  /\ proc[p].pc = "store"
  /\ proc[p].idx = Min(Len(proc[p].chunks), Len(proc[p].embeddings))
  /\ proc' = [proc EXCEPT ![p].pc = "completed"]
  /\ UNCHANGED <<callVars, chunks, nextChunkId, documentRows, searchVars, chatVars>>

\* The next database call of the request raises: HTTP 500, nothing undone
ProcessFail(p) ==
  /\ proc[p].pc \in {"delete", "store"}
  /\ proc' = [proc EXCEPT ![p].pc = "failed"]
  /\ UNCHANGED <<callVars, chunks, nextChunkId, documentRows, searchVars, chatVars>>

InitIndex ==
  /\ chunks = {}
  /\ nextChunkId = 1
  /\ documentRows = [d \in DocIds |-> [extracted_text |-> NULL]]
  /\ proc = [p \in Procs |-> IdleProc]
  /\ searchRes = NoSearch
  /\ prevSearch = NoSearch
  /\ sessions = {}
  /\ nextSessionId = 1
  /\ messages = {}
  /\ clock = 1
  /\ req = [r \in {} |-> 0]
  /\ ret = NoRet
  /\ call = NoCall

NextIndex ==
  \/ \E p \in Procs, d \in DocIds, n \in 1..MaxChunks : ProcessBegin(p, d, n)
  \/ \E p \in Procs, d \in DocIds : ProcessRejected(p, d)
  \/ \E p \in Procs : ProcessDelete(p)
  \/ \E p \in Procs, g \in BOOLEAN : ProcessEmbed(p, g)
  \/ \E p \in Procs : ProcessStore(p)
  \/ \E p \in Procs : ProcessFinish(p)
  \/ \E p \in Procs : ProcessFail(p)

SpecIndex == InitIndex /\ [][NextIndex]_vars

\* The ids of the document's chunks that a request is to replace: those it
\* found when it began and those its delete met
OldIds(p) == {c.id : c \in proc[p].prior} \cup proc[p].old

\* ---- C6 ----
\* C6: a reprocessing that ran to completion, no other process request for
\* the document interleaved, leaves exactly its M source chunks for the
\* document, chunk_index 0..M-1 in source order, and none of the old chunks.
C6_ReprocessReplaces ==
  \A p \in Procs :
    (proc[p].pc = "completed" /\ proc[p].undisturbed) =>
      LET mine == ChunksOf(chunks, proc[p].document_id)
          src == proc[p].chunks
      IN /\ Cardinality(mine) = Len(src)
         /\ \A i \in 1..Len(src) :
              \E c \in mine : c.chunk_index = i - 1 /\ c.content = src[i]
         /\ \A c \in mine : c.id \notin OldIds(p)

\* The case of C6: a completed, uninterrupted reprocessing of a document
\* that had N > 0 chunks, N different from M.
C6_Witness ==
  \E p \in Procs :
    /\ proc[p].pc = "completed"
    /\ proc[p].undisturbed
    /\ proc[p].prior # {}
    /\ Cardinality(proc[p].prior) # Len(proc[p].chunks)
    /\ proc[p].old # {}

\* ---- C7 ----
\* C7: in no state, during a reprocessing or after one that failed
\* part-way, does the document hold both a chunk of the old set and a
\* chunk the reprocessing wrote.
C7_NoOldNewMix ==
  \A p \in Procs :
    proc[p].pc \in {"embed", "store", "completed", "failed"} =>
      ~ \E c1, c2 \in ChunksOf(chunks, proc[p].document_id) :
          c1.id \in OldIds(p) /\ c2.id \in proc[p].written

\* The case of C7: a reprocessing of a document that had chunks failed
\* after writing some, not all, of the new chunks, and they are still there.
C7_Witness ==
  \E p \in Procs :
    /\ proc[p].pc = "failed"
    /\ proc[p].old # {}
    /\ proc[p].idx > 0
    /\ proc[p].idx < Len(proc[p].chunks)
    /\ \E c \in chunks : c.id \in proc[p].written

\* ---- C8 ----
\* C8: while a document is being reprocessed (by one request, no other
\* process request for it under way), its chunks as a search reads them are
\* either the complete prior set or the complete new set.
C8_WholesaleReplacement ==
  \A p \in Procs :
    (Active(p) /\ proc[p].undisturbed /\ proc[p].prior # {}) =>
      LET mine == ChunksOf(chunks, proc[p].document_id)
      IN \/ mine = proc[p].prior
         \/ /\ {c.id : c \in mine} = proc[p].written
            /\ Cardinality(mine) = Len(proc[p].chunks)

\* --------------------------------------------------------- session store
Users == {1, 2}
Requests == {1}             \* chat requests (stream_chat_response calls)

\* A chat_sessions row
SessionRow(id, user_id, now) ==
  [id |-> id, user_id |-> user_id, created_at |-> now, updated_at |-> now]

\* A chat_messages row; created_at is the server default now() of the insert
MessageRow(session_id, role, content, citations, generated_document_id, now) ==
  [session_id |-> session_id, role |-> role, content |-> content,
   citations |-> citations, generated_document_id |-> generated_document_id,
   created_at |-> now]

\* get_session that looks the session up by id alone
GetSessionById(rows, session_id, user_id) ==
  {s \in rows : s.id = session_id}

\* ChatService.get_session: the rows matching id and user (none or one)
GetSession(rows, session_id, user_id) ==
  {s \in rows : s.id = session_id /\ s.user_id = user_id}

\* ORDER BY created_at
RECURSIVE OrderByCreatedAt(_)
OrderByCreatedAt(rows) ==
  IF rows = {} THEN << >>
  ELSE LET first == CHOOSE m \in rows : \A o \in rows : m.created_at <= o.created_at
       IN <<first>> \o OrderByCreatedAt(rows \ {first})

\* ChatService.get_messages
GetMessages(srows, mrows, session_id, user_id) ==
  IF GetSession(srows, session_id, user_id) = {} THEN << >>
  ELSE OrderByCreatedAt({m \in mrows : m.session_id = session_id})

\* ChatService.create_session
CreateSession(user_id) ==
  /\ nextSessionId <= MaxSessions
  /\ sessions' = sessions \cup {SessionRow(nextSessionId, user_id, clock)}
  /\ nextSessionId' = nextSessionId + 1
  /\ clock' = clock + 1
  /\ UNCHANGED <<callVars, indexVars, searchVars, messages, req, ret>>

\* delete_session that removes the session row and leaves its messages
DeleteSessionKeepMessages(session_id, user_id) ==
  /\ IF GetSession(sessions, session_id, user_id) = {}
     THEN /\ ret' = [op |-> "delete_session", session_id |-> session_id,
                     user_id |-> user_id, result |-> FALSE]
          /\ UNCHANGED <<sessions, messages>>
     ELSE /\ sessions' = {s \in sessions : s.id # session_id}
          /\ ret' = [op |-> "delete_session", session_id |-> session_id,
                     user_id |-> user_id, result |-> TRUE]
          /\ UNCHANGED messages
  /\ UNCHANGED <<callVars, indexVars, searchVars, nextSessionId, clock, req>>

\* ChatService.delete_session: False when no session matches id and user,
\* else the messages and the session go in one commit
DeleteSession(session_id, user_id) ==
  /\ IF GetSession(sessions, session_id, user_id) = {}
     THEN /\ ret' = [op |-> "delete_session", session_id |-> session_id,
                     user_id |-> user_id, result |-> FALSE]
          /\ UNCHANGED <<sessions, messages>>
     ELSE /\ messages' = {m \in messages : m.session_id # session_id}
          /\ sessions' = {s \in sessions : s.id # session_id}
          /\ ret' = [op |-> "delete_session", session_id |-> session_id,
                     user_id |-> user_id, result |-> TRUE]
  /\ UNCHANGED <<callVars, indexVars, searchVars, nextSessionId, clock, req>>

\* ------------------------------------------------------------ retrieval
\* The index the chat specification runs against: document 1 processed
\* into two chunks, document 2 into one
ChatIndex ==
  {Chunk(1, 1, 1, 0, <<1, 0>>), Chunk(2, 1, 2, 1, <<3, 4>>), Chunk(3, 2, 1, 0, <<-1, 0>>)}

UserMessages == {"hello", "krs 61.870"}

\* ChatService.should_use_web_search: a statute keyword occurs in the query
ShouldUseWebSearch(query) == query = "krs 61.870"

\* The provider's vector for a query text (input_type "query")
QueryEmbeddingOf(query) == IF query = "hello" THEN <<1, 0>> ELSE <<-1, 0>>

\* db.query(Document).filter(Document.id == id).first()
GetDocument(id) == {d \in DocIds : d = id}

\* The formatting loop of retrieve_relevant_documents: one entry per result
\* whose document row exists; the filename stands for the title
RECURSIVE FormatResults(_)
FormatResults(results) ==
  IF results = << >> THEN << >>
  ELSE LET chunk == Head(results).chunk
           rest == FormatResults(Tail(results))
       IN IF GetDocument(chunk.document_id) # {}
          THEN <<[chunk_id |-> chunk.id, document_id |-> chunk.document_id,
                  document_title |-> chunk.document_id, content |-> chunk.content,
                  page_number |-> chunk.page_number,
                  relevance_score |-> Head(results).similarity]>> \o rest
          ELSE rest

\* ChatService.retrieve_relevant_documents: the lists it can return for a
\* query embedding (None when the provider failed)
RetrieveRelevantDocuments(store, query_embedding) ==
  IF query_embedding = None THEN {<< >>}
  ELSE {FormatResults(results) :
          results \in SearchSimilarChunks(store, query_embedding, DirectLimit,
                                          DirectMinScore, {})}

\* The citation stored for a retrieved chunk (chunk_index carries chunk_id)
CitationOf(doc) ==
  [document_id |-> doc.document_id, document_title |-> doc.document_title,
   chunk_index |-> doc.chunk_id, page_number |-> doc.page_number,
   relevance_score |-> doc.relevance_score]

\* The citations built from relevant_docs, in reverse order
RECURSIVE CitationsReversed(_)
CitationsReversed(docs) ==
  IF docs = << >> THEN << >>
  ELSE CitationsReversed(Tail(docs)) \o <<CitationOf(Head(docs))>>

\* The citations built from relevant_docs, in their order
RECURSIVE CitationsOf(_)
CitationsOf(docs) ==
  IF docs = << >> THEN << >>
  ELSE <<CitationOf(Head(docs))>> \o CitationsOf(Tail(docs))

\* --------------------------------------------------------------- events
NoCitation ==
  [document_id |-> NULL, document_title |-> NULL, chunk_index |-> NULL,
   page_number |-> NULL, relevance_score |-> 0]

\* "data: {json}\n\n" with type citation, content, done or error
CitationEvent(c) == [type |-> "citation", citation |-> c, content |-> << >>, error |-> ""]
ContentEvent(text) == [type |-> "content", citation |-> NoCitation, content |-> text, error |-> ""]
ErrorEvent(msg) == [type |-> "error", citation |-> NoCitation, content |-> << >>, error |-> msg]
DoneEvent == [type |-> "done", citation |-> NoCitation, content |-> << >>, error |-> ""]

RECURSIVE OfType(_, _)
OfType(events, type) ==
  IF events = << >> THEN << >>
  ELSE IF Head(events).type = type
       THEN <<Head(events)>> \o OfType(Tail(events), type)
       ELSE OfType(Tail(events), type)

\* The text deltas of the provider's stream, named by position
DeltaNames == <<"d1", "d2", "d3", "d4">>

\* ------------------------------------------------------- a chat request
NoContext == [docs |-> << >>, web |-> << >>]

Turn(role, content, context) == [role |-> role, content |-> content, context |-> context]

\* retrieval, generation, persistence, owned, invocations and produced are
\* history: how retrieve_relevant_documents ended ("ok", "no_embedding" when
\* the query embedding came back None, "index_failed" when the index query
\* raised), how generation and the assistant-message commit ended, whether the
\* session was the caller's when the request began, how often the provider
\* was invoked, and the deltas it produced
IdleReq ==
  [pc |-> "idle", mode |-> "direct", session_id |-> NULL, user_id |-> NULL,
   user_message |-> "", relevant_docs |-> << >>, web_results |-> << >>,
   citations |-> << >>, cited |-> 0, conversation |-> << >>,
   assistant_content |-> << >>, events |-> << >>, pending |-> << >>,
   retrieval |-> "none", generation |-> "none", persistence |-> "none",
   owned |-> FALSE, invocations |-> 0, produced |-> << >>]

Emit(r, e) == Append(req[r].events, e)

Modes == {"direct", "agent"}

SessionExists(session_id) == \E s \in sessions : s.id = session_id

\* The nullable JSON column chat_messages.citations: SQL NULL or an array
JsonNull == [null |-> TRUE, value |-> << >>]
JsonArray(items) == [null |-> FALSE, value |-> items]

\* citations if citations else None
CitationsOrNone(citations) ==
  IF citations # << >> THEN JsonArray(citations) ELSE JsonNull

\* The user message is not saved
SkipUserMessage(mrows, session_id, user_message, now) == mrows

\* db.add(ChatMessage(session_id, role="user", content=user_message)); commit
SaveUserMessage(mrows, session_id, user_message, now) ==
  mrows \cup {MessageRow(session_id, "user", <<user_message>>, JsonNull, NULL, now)}

\* An assistant message whose citations column holds the list as it is
SaveAssistantMessageKeepList(mrows, session_id, content, citations, now) ==
  mrows \cup {MessageRow(session_id, "assistant", content, JsonArray(citations), NULL, now)}

\* db.add(ChatMessage(role="assistant", ...)) as committed
SaveAssistantMessage(mrows, session_id, content, citations, now) ==
  mrows \cup {MessageRow(session_id, "assistant", content, CitationsOrNone(citations),
                         NULL, now)}

\* session.updated_at = value, committed with the assistant message
SetUpdatedAt(srows, session_id, value) ==
  {IF s.id = session_id THEN [s EXCEPT !.updated_at = value] ELSE s : s \in srows}

\* messages[:-1] of get_messages as turns, then the current turn: the
\* retrieved context and the literal question
RECURSIVE TurnsOf(_)
TurnsOf(msgs) ==
  IF msgs = << >> THEN << >>
  ELSE <<Turn(Head(msgs).role, Head(msgs).content, NoContext)>> \o TurnsOf(Tail(msgs))

BuildConversation(r, docs, web) ==
  LET msgs == GetMessages(sessions, messages, req[r].session_id, req[r].user_id)
      history == IF msgs = << >> THEN << >> ELSE SubSeq(msgs, 1, Len(msgs) - 1)
  IN TurnsOf(history) \o
       <<Turn("user", <<req[r].user_message>>, [docs |-> docs, web |-> web])>>

\* stream_chat_response of either service up to the first suspension:
\* ownership check, then the user's message is saved and committed
StreamBegin(r, mode, session_id, user_id, user_message) ==
  /\ req[r].pc = "idle"
  /\ IF GetSession(sessions, session_id, user_id) = {}
     THEN /\ req' = [req EXCEPT ![r] =
                 [IdleReq EXCEPT !.pc = "closed", !.mode = mode,
                                 !.session_id = session_id, !.user_id = user_id,
                                 !.user_message = user_message,
                                 !.events = <<ErrorEvent("Session not found")>>]]
          /\ UNCHANGED <<messages, clock>>
     ELSE /\ messages' = SaveUserMessage(messages, session_id, user_message, clock)
          /\ clock' = clock + 1
          /\ req' = [req EXCEPT ![r] =
                 [IdleReq EXCEPT !.pc = IF mode = "direct" THEN "retrieve" ELSE "agent_open",
                                 !.mode = mode, !.session_id = session_id,
                                 !.user_id = user_id, !.user_message = user_message,
                                 !.owned = TRUE]]
  /\ UNCHANGED <<callVars, indexVars, searchVars, sessions, nextSessionId, ret>>

\* ---------------------------------------------- direct mode (ChatService)
\* retrieve_relevant_documents; without a statute keyword the context and
\* the conversation are built in the same run
DirectRetrieve(r, embedding_ok) ==
  /\ req[r].pc = "retrieve"
  /\ \E docs \in RetrieveRelevantDocuments(chunks,
                   IF embedding_ok THEN QueryEmbeddingOf(req[r].user_message) ELSE None) :
       req' = [req EXCEPT ![r] =
         IF ShouldUseWebSearch(req[r].user_message)
         THEN [@ EXCEPT !.pc = "web", !.relevant_docs = docs,
                        !.retrieval = IF embedding_ok THEN "ok" ELSE "no_embedding"]
         ELSE [@ EXCEPT !.pc = "cite", !.relevant_docs = docs,
                        !.retrieval = IF embedding_ok THEN "ok" ELSE "no_embedding",
                        !.citations = CitationsOf(docs),
                        !.conversation = BuildConversation(r, docs, << >>)]]
  /\ UNCHANGED <<callVars, indexVars, searchVars, sessions, nextSessionId, messages, clock, ret>>

\* The awaited web search returned (results, nothing, or an exception that
\* is swallowed); context, citations and conversation are built
DirectWebSearch(r, outcome) ==
  /\ req[r].pc = "web"
  /\ LET web == IF outcome = "results" THEN <<"w">> ELSE << >>
     IN req' = [req EXCEPT ![r].pc = "cite", ![r].web_results = web,
                           ![r].citations = CitationsOf(req[r].relevant_docs),
                           ![r].conversation =
                              BuildConversation(r, req[r].relevant_docs, web)]
  /\ UNCHANGED <<callVars, indexVars, searchVars, sessions, nextSessionId, messages, clock, ret>>

\* A database query ahead of the try block raises (the index query, the
\* document lookups, get_messages): the exception leaves the generator
DirectCrash(r) ==
  /\ req[r].pc \in {"retrieve", "web"}
  /\ req' = [req EXCEPT ![r].pc = "crashed",
                        ![r].retrieval = IF req[r].pc = "retrieve" THEN "index_failed" ELSE @]
  /\ UNCHANGED <<callVars, indexVars, searchVars, sessions, nextSessionId, messages, clock, ret>>

\* for citation in citations: yield the citation event
DirectCite(r) ==
  /\ req[r].pc = "cite"
  /\ req[r].cited < Len(req[r].citations)
  /\ req' = [req EXCEPT ![r].cited = @ + 1,
                        ![r].events = Emit(r, CitationEvent(req[r].citations[req[r].cited + 1]))]
  /\ UNCHANGED <<callVars, indexVars, searchVars, sessions, nextSessionId, messages, clock, ret>>

\* client.messages.stream(...) is entered: the provider is invoked
DirectOpenStream(r) ==
  /\ req[r].pc = "cite"
  /\ req[r].cited = Len(req[r].citations)
  /\ req' = [req EXCEPT ![r].pc = "generate", ![r].invocations = @ + 1]
  /\ UNCHANGED <<callVars, indexVars, searchVars, sessions, nextSessionId, messages, clock, ret>>

\* A content_block_delta with text: appended and yielded at once
ProviderDelta(r) ==
  /\ req[r].pc = "generate"
  /\ Len(req[r].produced) < MaxDeltas
  /\ LET chunk == DeltaNames[Len(req[r].produced) + 1]
     IN req' = [req EXCEPT ![r].produced = Append(@, chunk),
                           ![r].assistant_content = @ \o <<chunk>>,
                           ![r].events = Emit(r, ContentEvent(<<chunk>>))]
  /\ UNCHANGED <<callVars, indexVars, searchVars, sessions, nextSessionId, messages, clock, ret>>

\* The stream raises: the error event, then the provider is called again
ProviderFailRetry(r) ==
  /\ req[r].pc = "generate"
  /\ req' = [req EXCEPT ![r].pc = "generate", ![r].generation = "failed",
                        ![r].invocations = @ + 1,
                        ![r].events = Emit(r, ErrorEvent("Error during streaming"))]
  /\ UNCHANGED <<callVars, indexVars, searchVars, sessions, nextSessionId, messages, clock, ret>>

\* The stream raises and the partial content is saved with the error event
ProviderFailSavePartial(r) ==
  /\ req[r].pc = "generate"
  /\ SessionExists(req[r].session_id)
  /\ messages' = SaveAssistantMessage(messages, req[r].session_id,
                                      req[r].assistant_content, req[r].citations, clock)
  /\ clock' = clock + 1
  /\ req' = [req EXCEPT ![r].pc = "closed", ![r].generation = "failed",
                        ![r].events = Emit(r, ErrorEvent("Error during streaming"))]
  /\ UNCHANGED <<callVars, indexVars, searchVars, sessions, nextSessionId, ret>>

\* The stream raises: one error event, return
ProviderFail(r) ==
  /\ req[r].pc = "generate"
  /\ req' = [req EXCEPT ![r].pc = "closed", ![r].generation = "failed",
                        ![r].events = Emit(r, ErrorEvent("Error during streaming"))]
  /\ UNCHANGED <<callVars, indexVars, searchVars, sessions, nextSessionId, messages, clock, ret>>

\* message_stop; the assistant message and the session timestamp are
\* committed; the done event.  assistant_msg.created_at is a server default
\* and still unset when it is assigned to session.updated_at.
DirectFinish(r) ==
  /\ req[r].pc = "generate"
  /\ SessionExists(req[r].session_id)
  /\ messages' = SaveAssistantMessage(messages, req[r].session_id,
                                      req[r].assistant_content, req[r].citations, clock)
  /\ sessions' = SetUpdatedAt(sessions, req[r].session_id, NULL)
  /\ clock' = clock + 1
  /\ req' = [req EXCEPT ![r].pc = "closed", ![r].generation = "ok",
                        ![r].persistence = "ok", ![r].events = Emit(r, DoneEvent)]
  /\ UNCHANGED <<callVars, indexVars, searchVars, nextSessionId, ret>>

\* message_stop; the commit raises (always so when the session row is
\* gone): an error event, the done event still to come
DirectPersistFail(r) ==
  /\ req[r].pc = "generate"
  /\ req' = [req EXCEPT ![r].pc = "done", ![r].generation = "ok",
                        ![r].persistence = "failed",
                        ![r].events = Emit(r, ErrorEvent("Failed to save message"))]
  /\ UNCHANGED <<callVars, indexVars, searchVars, sessions, nextSessionId, messages, clock, ret>>

\* yield the done event after the save error
EmitDone(r) ==
  /\ req[r].pc = "done"
  /\ req' = [req EXCEPT ![r].pc = "closed", ![r].events = Emit(r, DoneEvent)]
  /\ UNCHANGED <<callVars, indexVars, searchVars, sessions, nextSessionId, messages, clock, ret>>

\* The client disconnects while the generator is suspended: it is not resumed
Cancel(r) ==
  /\ req[r].pc \in {"retrieve", "web", "cite", "generate", "done", "agent_open", "agent"}
  /\ req' = [req EXCEPT ![r].pc = "cancelled"]
  /\ UNCHANGED <<callVars, indexVars, searchVars, sessions, nextSessionId, messages, clock, ret>>

\* -------------------------------------------- agent mode (ChatServiceSDK)
\* A text block is a sequence of tokens: "S" and "E" are the sentinels
\* __CITATIONS_START__ and __CITATIONS_END__, "c1" and "c2" JSON records of
\* a citation payload, "k" a JSON record without document_id, every other
\* token plain text
AgentBlocks == {<<"t">>, <<"t", "S", "c1", "E", "u">>, <<"u", "S", "c1", "k", "E">>}

RECURSIVE IndexOf(_, _)
IndexOf(text, tok) ==
  IF text = << >> THEN 0
  ELSE IF Head(text) = tok THEN 1
       ELSE LET i == IndexOf(Tail(text), tok) IN IF i = 0 THEN 0 ELSE i + 1

\* text up to the first tok (all of it when tok does not occur)
Before(text, tok) ==
  IF IndexOf(text, tok) = 0 THEN text ELSE SubSeq(text, 1, IndexOf(text, tok) - 1)

\* text behind the first tok
After(text, tok) == SubSeq(text, IndexOf(text, tok) + 1, Len(text))

\* text.split("__CITATIONS_START__")[1].split("__CITATIONS_END__")[0]
CitationPart(text) == Before(Before(After(text, "S"), "S"), "E")

\* json.loads succeeds on the payload: an array of records
IsJsonArray(part) == part # << >> /\ \A i \in 1..Len(part) : part[i] \in {"c1", "c2", "k"}

\* formatted_citation of a payload record
FormattedCitation(tok) ==
  LET document_id == IF tok = "c1" THEN 1 ELSE 2
  IN [document_id |-> document_id, document_title |-> document_id,
      chunk_index |-> document_id, page_number |-> NULL, relevance_score |-> 96]

\* The citation events of the records ahead of the first that raises
RECURSIVE CitationEvents(_)
CitationEvents(part) ==
  IF part = << >> \/ Head(part) = "k" THEN << >>
  ELSE <<CitationEvent(FormattedCitation(Head(part)))>> \o CitationEvents(Tail(part))

\* What the handling of one TextBlock yields, in order (lines 564-593)
BlockEvents(text) ==
  IF IndexOf(text, "S") # 0 /\ IndexOf(text, "E") # 0
  THEN LET part == CitationPart(text)
       IN IF IsJsonArray(part)
          THEN CitationEvents(part) \o
                 <<ContentEvent(IF IndexOf(part, "k") # 0 THEN text ELSE Before(text, "S"))>>
          ELSE <<ContentEvent(text)>>
  ELSE <<ContentEvent(text)>>

\* ClaudeSDKClient is entered and query() sent: the provider is invoked
AgentOpen(r) ==
  /\ req[r].pc = "agent_open"
  /\ req' = [req EXCEPT ![r].pc = "agent", ![r].invocations = @ + 1]
  /\ UNCHANGED <<callVars, indexVars, searchVars, sessions, nextSessionId, messages, clock, ret>>

\* An AssistantMessage with one TextBlock arrives
AgentBlock(r, text) ==
  /\ req[r].pc = "agent"
  /\ req[r].pending = << >>
  /\ Len(req[r].produced) < MaxDeltas
  /\ req' = [req EXCEPT ![r].produced = Append(@, text), ![r].pending = BlockEvents(text)]
  /\ UNCHANGED <<callVars, indexVars, searchVars, sessions, nextSessionId, messages, clock, ret>>

\* The next yield of the block: a citation is appended to citations, the
\* visible text to assistant_content
AgentYield(r) ==
  /\ req[r].pc = "agent"
  /\ req[r].pending # << >>
  /\ LET e == Head(req[r].pending)
     IN req' = [req EXCEPT ![r].pending = Tail(@),
                           ![r].events = Emit(r, e),
                           ![r].citations =
                              IF e.type = "citation" THEN Append(@, e.citation) ELSE @,
                           ![r].assistant_content =
                              IF e.type = "content" THEN @ \o e.content ELSE @]
  /\ UNCHANGED <<callVars, indexVars, searchVars, sessions, nextSessionId, messages, clock, ret>>

\* ResultMessage; the assistant message is committed; the done event
AgentFinish(r) ==
  /\ req[r].pc = "agent"
  /\ req[r].pending = << >>
  /\ SessionExists(req[r].session_id)
  /\ messages' = SaveAssistantMessage(messages, req[r].session_id,
                                      req[r].assistant_content, req[r].citations, clock)
  /\ clock' = clock + 1
  /\ req' = [req EXCEPT ![r].pc = "closed", ![r].generation = "ok",
                        ![r].persistence = "ok", ![r].events = Emit(r, DoneEvent)]
  /\ UNCHANGED <<callVars, indexVars, searchVars, sessions, nextSessionId, ret>>

\* A variant that yields the done event before the commit that raises
AgentPersistFailAfterDone(r) ==
  /\ req[r].pc = "agent"
  /\ req[r].pending = << >>
  /\ req' = [req EXCEPT ![r].pc = "closed", ![r].generation = "ok",
                        ![r].persistence = "failed",
                        ![r].events = Emit(r, DoneEvent) \o <<ErrorEvent("Error in chat response")>>]
  /\ UNCHANGED <<callVars, indexVars, searchVars, sessions, nextSessionId, messages, clock, ret>>

\* ResultMessage; the commit raises: the outer handler yields an error event
AgentPersistFail(r) ==
  /\ req[r].pc = "agent"
  /\ req[r].pending = << >>
  /\ req' = [req EXCEPT ![r].pc = "closed", ![r].generation = "ok",
                        ![r].persistence = "failed",
                        ![r].events = Emit(r, ErrorEvent("Error in chat response"))]
  /\ UNCHANGED <<callVars, indexVars, searchVars, sessions, nextSessionId, messages, clock, ret>>

\* The client, query() or receive_response() raises: one error event
AgentFail(r) ==
  /\ req[r].pc \in {"agent_open", "agent"}
  /\ req[r].pending = << >>
  /\ req' = [req EXCEPT ![r].pc = "closed", ![r].generation = "failed",
                        ![r].events = Emit(r, ErrorEvent("Error in chat response"))]
  /\ UNCHANGED <<callVars, indexVars, searchVars, sessions, nextSessionId, messages, clock, ret>>

\* ---------------------------------------------- the chat specification
Init ==
  /\ chunks = ChatIndex
  /\ nextChunkId = 4
  /\ documentRows = [d \in {} |-> 0]
  /\ proc = [p \in {} |-> 0]
  /\ searchRes = NoSearch
  /\ prevSearch = NoSearch
  /\ sessions = {}
  /\ nextSessionId = 1
  /\ messages = {}
  /\ clock = 1
  /\ req = [r \in Requests |-> IdleReq]
  /\ ret = NoRet
  /\ call = NoCall

Next ==
  \/ \E u \in Users : CreateSession(u)
  \/ \E sid \in 1..MaxSessions, u \in Users : sid < nextSessionId /\ DeleteSession(sid, u)
  \/ \E r \in Requests, mode \in Modes, sid \in 1..MaxSessions, u \in Users,
        msg \in UserMessages : StreamBegin(r, mode, sid, u, msg)
  \/ \E r \in Requests, ok \in BOOLEAN : DirectRetrieve(r, ok)
  \/ \E r \in Requests, outcome \in {"results", "empty", "error"} : DirectWebSearch(r, outcome)
  \/ \E r \in Requests : DirectCrash(r)
  \/ \E r \in Requests : DirectCite(r)
  \/ \E r \in Requests : DirectOpenStream(r)
  \/ \E r \in Requests : ProviderDelta(r)
  \/ \E r \in Requests : ProviderFail(r)
  \/ \E r \in Requests : DirectFinish(r)
  \/ \E r \in Requests : DirectPersistFail(r)
  \/ \E r \in Requests : EmitDone(r)
  \/ \E r \in Requests : Cancel(r)
  \/ \E r \in Requests : AgentOpen(r)
  \/ \E r \in Requests, text \in AgentBlocks : AgentBlock(r, text)
  \/ \E r \in Requests : AgentYield(r)
  \/ \E r \in Requests : AgentFinish(r)
  \/ \E r \in Requests : AgentPersistFail(r)
  \/ \E r \in Requests : AgentFail(r)

Spec == Init /\ [][Next]_vars

Last(seq) == seq[Len(seq)]

Types(events) == {events[i].type : i \in 1..Len(events)}

\* ---- C1 ----
\* C1: in direct streaming mode, on an owned session, the citation events
\* are the citations of the retrieved chunks, one each and in retrieval
\* order (a prefix of them while they are being sent, all of them once a
\* content or terminal event is out), every citation event precedes every
\* content event, and the content events carry the provider's text deltas
\* in the order it produced them.
C1_CitationsThenContent ==
  \A r \in Requests :
    (req[r].mode = "direct" /\ req[r].owned) =>
      LET ev == req[r].events
          cites == OfType(ev, "citation")
          conts == OfType(ev, "content")
          docs == req[r].relevant_docs
      IN /\ \A i, j \in 1..Len(ev) :
              (ev[i].type = "citation" /\ ev[j].type = "content") => i < j
         /\ Len(cites) <= Len(docs)
         /\ \A i \in 1..Len(cites) : cites[i].citation = CitationOf(docs[i])
         /\ \A i, j \in 1..Len(cites) :
              i < j => cites[i].citation.relevance_score >= cites[j].citation.relevance_score
         /\ (Types(ev) \cap {"content", "done", "error"} # {}) => Len(cites) = Len(docs)
         /\ Len(conts) = Len(req[r].produced)
         /\ \A i \in 1..Len(conts) : conts[i].content = <<req[r].produced[i]>>

\* The case of C1: a direct stream on an owned session ended with done
\* after two citations of different chunks and two text deltas.
C1_Witness ==
  \E r \in Requests :
    /\ req[r].mode = "direct"
    /\ req[r].owned
    /\ req[r].pc = "closed"
    /\ Last(req[r].events).type = "done"
    /\ Len(OfType(req[r].events, "citation")) = 2
    /\ req[r].events[1].citation # req[r].events[2].citation
    /\ Len(OfType(req[r].events, "content")) >= 2

\* ---- C2 ----
\* C2: in either mode a stream holds at most one done event and nothing
\* after it; a request whose generation and persistence succeeded ends with
\* exactly one done event; a stream whose last event is error holds no done
\* event.
C2_OneTerminalEvent ==
  \A r \in Requests :
    LET ev == req[r].events
    IN /\ Len(OfType(ev, "done")) <= 1
       /\ \A i \in 1..Len(ev) : ev[i].type = "done" => i = Len(ev)
       /\ (req[r].generation = "ok" /\ req[r].persistence = "ok") =>
            /\ req[r].pc = "closed"
            /\ Last(ev).type = "done"
            /\ Len(OfType(ev, "done")) = 1
       /\ (ev # << >> /\ Last(ev).type = "error") => "done" \notin Types(ev)

\* The case of C2: an agent-mode stream whose generation and persistence
\* succeeded: citation and content events, then done.
C2_Witness ==
  \E r \in Requests :
    /\ req[r].mode = "agent"
    /\ req[r].generation = "ok"
    /\ req[r].persistence = "ok"
    /\ {"citation", "content", "done"} \subseteq Types(req[r].events)

\* ---- C3 ----
\* C3: when the generation provider fails (also mid-stream, after content
\* events), the stream ends with exactly one error event, after every
\* content event, holds no done event, and the provider is not invoked a
\* second time for the request.
C3_ErrorEndsFailedGeneration ==
  \A r \in Requests :
    req[r].generation = "failed" =>
      LET ev == req[r].events
      IN /\ req[r].pc = "closed"
         /\ ev # << >> /\ Last(ev).type = "error"
         /\ Len(OfType(ev, "error")) = 1
         /\ "done" \notin Types(ev)
         /\ req[r].invocations <= 1

\* The case of C3: the provider failed after two content events.
C3_Witness ==
  \E r \in Requests :
    /\ req[r].generation = "failed"
    /\ req[r].invocations = 1
    /\ Len(OfType(req[r].events, "content")) >= 2

\* ---- C4 ----
\* C4: once a request on an owned session is past its first step (so before
\* embedding, retrieval or generation, and after any failure or disconnect
\* later on), get_messages of the owner returns the literal user message as
\* a user row, for as long as the session is not deleted.
C4_UserMessageKept ==
  \A r \in Requests :
    (req[r].owned /\ GetSession(sessions, req[r].session_id, req[r].user_id) # {}) =>
      \E m \in Range(GetMessages(sessions, messages, req[r].session_id, req[r].user_id)) :
        m.role = "user" /\ m.content = <<req[r].user_message>>

\* The case of C4: the client disconnected mid-stream, after a content
\* event, from a request whose retrieval had found context.
C4_Witness ==
  \E r \in Requests :
    /\ req[r].owned
    /\ req[r].pc = "cancelled"
    /\ req[r].relevant_docs # << >>
    /\ "content" \in Types(req[r].events)
    /\ GetSession(sessions, req[r].session_id, req[r].user_id) # {}

\* ---- C5 ----
\* C5: with the right session id and a user who is not the owner,
\* get_session finds nothing and get_messages returns no message;
\* delete_session returns false and leaves sessions and messages as they
\* were; a chat request emits the single error event, is over, and saves no
\* message.
NotOwner(session_id, user_id) ==
  \E s \in sessions : s.id = session_id /\ s.user_id # user_id

C5_Reads ==
  \A s \in sessions, u \in Users :
    u # s.user_id =>
      /\ GetSession(sessions, s.id, u) = {}
      /\ GetMessages(sessions, messages, s.id, u) = << >>

C5_Writes ==
  /\ (ret' # ret /\ NotOwner(ret'.session_id, ret'.user_id)) =>
       /\ ret'.result = FALSE
       /\ sessions' = sessions
       /\ messages' = messages
  /\ \A r \in Requests :
       (req[r].pc = "idle" /\ req'[r].pc # "idle"
          /\ NotOwner(req'[r].session_id, req'[r].user_id)) =>
         /\ req'[r].events = <<ErrorEvent("Session not found")>>
         /\ req'[r].pc = "closed"
         /\ sessions' = sessions
         /\ messages' = messages
  /\ \A r \in Requests : (req[r].pc = "closed" /\ ~req[r].owned) => req'[r] = req[r]

C5_NonOwnerIsNotFound == [](C5_Reads) /\ [][C5_Writes]_vars

\* The case of C5: a session exists, a user who does not own it has called
\* delete_session on it and has sent a chat request to it.
C5_Witness ==
  \E r \in Requests :
    /\ req[r].pc = "closed"
    /\ NotOwner(req[r].session_id, req[r].user_id)
    /\ ret.op = "delete_session"
    /\ ret.session_id = req[r].session_id
    /\ NotOwner(ret.session_id, ret.user_id)

\* ------------------------------------------------------- list_sessions
\* The sort key of ORDER BY ... DESC: PostgreSQL puts NULL first
DescKey(value) == IF value = NULL THEN clock + 1 ELSE value

\* The orders in which ORDER BY key DESC can return rows (ties in any order)
RECURSIVE OrdersDesc(_, _)
OrdersDesc(rows, column) ==
  IF rows = {} THEN {<< >>}
  ELSE UNION {{<<first>> \o rest : rest \in OrdersDesc(rows \ {first}, column)} :
                first \in {s \in rows : \A o \in rows : DescKey(s[column]) >= DescKey(o[column])}}

\* ChatService.list_sessions: the user's sessions, updated_at descending
ListSessions(rows, user_id) ==
  OrdersDesc({s \in rows : s.user_id = user_id}, "updated_at")

\* ChatServiceSDK.list_sessions: the user's sessions, created_at descending
ListSessionsSDK(rows, user_id) ==
  OrdersDesc({s \in rows : s.user_id = user_id}, "created_at")

\* list_sessions of the service that ran the request
ListSessionsOf(mode, rows, user_id) ==
  IF mode = "direct" THEN ListSessions(rows, user_id) ELSE ListSessionsSDK(rows, user_id)

\* The position of session id in a listing
PositionOf(order, id) == CHOOSE i \in 1..Len(order) : order[i].id = id

\* ---- C11 ----
\* C11: on the step that commits the assistant message of a request, the
\* session's updated_at becomes a time not earlier than its value before,
\* and every listing list_sessions can return for the owner has the session
\* ahead of each of the owner's sessions updated before that step.
C11_AppendStep ==
  \A r \in Requests :
    (req[r].persistence # "ok" /\ req'[r].persistence = "ok") =>
      \A s \in sessions : s.id = req[r].session_id =>
        \E t \in sessions' :
          /\ t.id = s.id
          /\ t.updated_at # NULL
          /\ t.updated_at >= s.updated_at
          /\ \A order \in ListSessionsOf(req[r].mode, sessions', t.user_id) :
               \A o \in sessions' :
                 (o.user_id = t.user_id /\ o.id # t.id
                    /\ o.updated_at # NULL /\ o.updated_at < clock) =>
                   PositionOf(order, t.id) < PositionOf(order, o.id)

C11_UpdatedAtAdvances == [][C11_AppendStep]_vars

\* ---- C12 ----
\* C12: a direct-mode request whose retrieval failed (no query embedding,
\* or the index query raised) is not aborted: it has no citations, goes on
\* to the generation step, and the conversation handed to the provider
\* carries no retrieved context.
C12_RetrievalFailureDegrades ==
  \A r \in Requests :
    req[r].retrieval \in {"no_embedding", "index_failed"} =>
      /\ req[r].pc = "crashed" => req[r].retrieval # "index_failed"
      /\ req[r].citations = << >>
      /\ "citation" \notin Types(req[r].events)
      /\ req[r].invocations >= 1 => Last(req[r].conversation).context.docs = << >>

\* ---- C13 ----
\* C13: a chat stream that has finished (the generator returned or an
\* exception left it; a client disconnect is not a finish) has a last
\* event, and it is done or error.
C13_FinishedWithTerminalEvent ==
  \A r \in Requests :
    req[r].pc \in {"closed", "crashed"} =>
      /\ req[r].events # << >>
      /\ Last(req[r].events).type \in {"done", "error"}

\* ---- C14 ----
\* C14: in agent mode no content event of a request comes before a
\* citation event of that request, whatever text blocks the provider sends.
C14_AgentCitationsFirst ==
  \A r \in Requests :
    req[r].mode = "agent" =>
      \A i, j \in 1..Len(req[r].events) :
        (req[r].events[i].type = "content" /\ req[r].events[j].type = "citation") => j < i

\* ----------------------------------------------------------- agent tools
MaxToolCalls == 2           \* tool calls of one agent turn
ToolLimit == 5              \* args.get("limit", 5)
ToolMinScore == 30          \* min_score=0.3, in hundredths

\* How a call ends: it returns a value or an exception leaves it
Return(value) == [raised |-> FALSE, value |-> value]
Raise(error) == [raised |-> TRUE, value |-> error]

\* The dict a tool hands back to the provider
ToolOutput(text, payload, is_error) == [text |-> text, payload |-> payload, is_error |-> is_error]

\* A tool body with no handler around it: the exception leaves the tool
NoTryExcept(outcome, text) == outcome

\* try: <body> except Exception as e: return {..., "is_error": True}
TryExcept(outcome, text) ==
  IF outcome.raised THEN Return(ToolOutput(text, << >>, TRUE)) ELSE outcome

\* The formatting loop of search_documents: one record per result whose
\* document row exists
RECURSIVE ToolFormatResults(_)
ToolFormatResults(results) ==
  IF results = << >> THEN << >>
  ELSE LET chunk == Head(results).chunk
           rest == ToolFormatResults(Tail(results))
       IN IF GetDocument(chunk.document_id) # {}
          THEN <<[document_id |-> chunk.document_id, document_title |-> chunk.document_id,
                  content |-> chunk.content, page_number |-> chunk.page_number,
                  relevance_score |-> Head(results).similarity]>> \o rest
          ELSE rest

\* The body of search_documents: query_embedding is None when the provider
\* failed; index_ok is false when the index query raises
SearchDocumentsBody(store, query_embedding, index_ok) ==
  IF query_embedding = None
  THEN {Return(ToolOutput("Failed to generate embedding for query.", << >>, TRUE))}
  ELSE IF ~index_ok THEN {Raise("index query failed")}
  ELSE {IF results = << >>
        THEN Return(ToolOutput("No relevant documents found in the library.", << >>, FALSE))
        ELSE Return(ToolOutput("Found relevant documents", ToolFormatResults(results), FALSE)) :
          results \in SearchSimilarChunks(store, query_embedding, ToolLimit, ToolMinScore, {})}

\* The search_documents tool
SearchDocuments(store, query_embedding, index_ok) ==
  {TryExcept(o, "Error searching documents") :
     o \in SearchDocumentsBody(store, query_embedding, index_ok)}

WebOutcomes == {"results", "empty", "raises"}

\* The body of search_kentucky_statutes
SearchKentuckyStatutesBody(web) ==
  IF web = "raises" THEN Raise("web search failed")
  ELSE IF web = "empty" THEN Return(ToolOutput("No web results found", << >>, FALSE))
  ELSE Return(ToolOutput("Web Search Results", << >>, FALSE))

\* The search_kentucky_statutes tool
SearchKentuckyStatutes(web) ==
  TryExcept(SearchKentuckyStatutesBody(web), "Error in web search")

\* DocumentGenerator.TEMPLATE_TYPES, and the types and formats a call can name
TEMPLATE_TYPES == {"board_resolution", "meeting_minutes", "notice", "consent_action"}
TemplateArgs == {"board_resolution", "notice", "bylaws"}
FormatArgs == {"docx", "pdf", "txt"}

\* DocumentGenerator.generate_document: the bytes, or ValueError
GenerateDocument(template_type, format) ==
  IF template_type \notin TEMPLATE_TYPES THEN Raise("Unknown template type")
  ELSE IF format \notin {"docx", "pdf"} THEN Raise("Unsupported format")
  ELSE Return(<<template_type, format>>)

\* The body of generate_document: storage_ok is false when _save_file or
\* the commit of the Document row raises
GenerateDocumentBody(template_type, format, storage_ok) ==
  LET doc_content == GenerateDocument(template_type, format)
  IN IF doc_content.raised THEN doc_content
     ELSE IF ~storage_ok THEN Raise("storage failed")
     ELSE Return(ToolOutput("Document generated successfully!", << >>, FALSE))

\* The generate_document tool
GenerateDocumentTool(template_type, format, storage_ok) ==
  TryExcept(GenerateDocumentBody(template_type, format, storage_ok),
            "Error generating document")

\* An agent turn in which the provider calls tools: results are the tool
\* outputs handed back to the provider, documents counts the Document rows
\* generate_document committed, events is the client stream, failed says
\* whether the latest call met a failure
NoToolCalls ==
  [fn |-> "tools", results |-> << >>, documents |-> 0, events |-> << >>, failed |-> FALSE]

\* The turn after a tool returned: the provider gets the return value; an
\* exception that left the tool would reach the handler of
\* stream_chat_response
AfterTool(tool, outcome, failed, documents) ==
  [call EXCEPT
     !.results = Append(@, [tool |-> tool, raised |-> outcome.raised,
                            output |-> outcome.value]),
     !.documents = @ + documents,
     !.failed = failed,
     !.events = IF outcome.raised THEN Append(@, ErrorEvent("Error in chat response")) ELSE @]

\* The provider may call a tool
CanCallTool ==
  /\ call.fn = "tools"
  /\ Len(call.results) < MaxToolCalls
  /\ "error" \notin Types(call.events)

CallSearchDocuments(query_embedding, index_ok) ==
  /\ CanCallTool
  /\ \E outcome \in SearchDocuments(chunks, query_embedding, index_ok) :
       call' = AfterTool("search_documents", outcome, query_embedding = None \/ ~index_ok, 0)
  /\ UNCHANGED <<indexVars, searchVars, chatVars>>

CallSearchKentuckyStatutes(web) ==
  /\ CanCallTool
  /\ call' = AfterTool("search_kentucky_statutes", SearchKentuckyStatutes(web),
                       web = "raises", 0)
  /\ UNCHANGED <<indexVars, searchVars, chatVars>>

CallGenerateDocument(template_type, format, storage_ok) ==
  /\ CanCallTool
  /\ LET ok == template_type \in TEMPLATE_TYPES /\ format \in {"docx", "pdf"} /\ storage_ok
     IN call' = AfterTool("generate_document",
                          GenerateDocumentTool(template_type, format, storage_ok),
                          ~ok, IF ok THEN 1 ELSE 0)
  /\ UNCHANGED <<indexVars, searchVars, chatVars>>

InitTools ==
  /\ chunks \in {{}, ChatIndex}
  /\ nextChunkId = 4
  /\ documentRows = [d \in {} |-> 0]
  /\ proc = [p \in {} |-> 0]
  /\ searchRes = NoSearch
  /\ prevSearch = NoSearch
  /\ sessions = {}
  /\ nextSessionId = 1
  /\ messages = {}
  /\ clock = 1
  /\ req = [r \in {} |-> 0]
  /\ ret = NoRet
  /\ call = NoToolCalls

NextTools ==
  \/ \E q \in {QueryEmbeddingOf(m) : m \in UserMessages} \cup {None}, index_ok \in BOOLEAN :
       CallSearchDocuments(q, index_ok)
  \/ \E web \in WebOutcomes : CallSearchKentuckyStatutes(web)
  \/ \E t \in TemplateArgs, f \in FormatArgs, storage_ok \in BOOLEAN :
       CallGenerateDocument(t, f, storage_ok)

SpecTools == InitTools /\ [][NextTools]_vars

WellFormedBlock(text) ==
  /\ IndexOf(text, "S") # 0
  /\ IndexOf(After(text, "S"), "E") # 0
  /\ CitationPart(text) # << >>
  /\ Range(CitationPart(text)) \subseteq {"c1", "c2"}

OutsidePair(text) == Before(text, "S") \o After(After(text, "S"), "E")

C16_SentinelPairStripped ==
  \A r \in Requests :
    (req[r].pc = "agent" /\ req[r].pending # << >> /\ WellFormedBlock(Last(req[r].produced))) =>
      LET text == Last(req[r].produced)
          content == Last(req[r].pending).content
          cites == OfType(req[r].pending, "citation")
      IN /\ Range(content) \cap ({"S", "E"} \cup Range(CitationPart(text))) = {}
         /\ content = OutsidePair(text)
         /\ Len(req[r].pending) > Len(CitationPart(text)) =>
              /\ Len(cites) = Len(CitationPart(text))
              /\ \A i \in 1..Len(cites) :
                   cites[i].citation = FormattedCitation(CitationPart(text)[i])

\* ------------------------------------------------------------ chunk_text
MaxTextLen == 5             \* characters of a text
MaxChunkSize == 3           \* chunk_size runs from MinChunkSize to here
MaxOverlap == 3             \* chunk_overlap runs from 0 to here
MaxIterations == 6          \* loop iterations followed before the model stops
MinChunkSize == 1           \* the schema's ge= of chunk_size, scaled down

\* Texts over two characters; the encoding knows the tokens a, b and ab
Texts == UNION {[1..n -> {"a", "b"}] : n \in 0..MaxTextLen}

\* encoding.encode: left to right, the longest token first
RECURSIVE Encode(_)
Encode(text) ==
  IF text = << >> THEN << >>
  ELSE IF Len(text) >= 2 /\ text[1] = "a" /\ text[2] = "b"
       THEN <<"ab">> \o Encode(SubSeq(text, 3, Len(text)))
       ELSE <<text[1]>> \o Encode(Tail(text))

\* encoding.decode: the characters of the tokens
RECURSIVE Decode(_)
Decode(tokens) ==
  IF tokens = << >> THEN << >>
  ELSE (IF Head(tokens) = "ab" THEN <<"a", "b">> ELSE <<Head(tokens)>>) \o Decode(Tail(tokens))

\* A slice bound as Python reads it: negative counts from the end, then
\* clipped to 0..len
SliceBound(i, len) ==
  LET j == IF i < 0 THEN i + len ELSE i
  IN IF j < 0 THEN 0 ELSE IF j > len THEN len ELSE j

\* tokens[start:end]
Slice(tokens, start, end) ==
  SubSeq(tokens, SliceBound(start, Len(tokens)) + 1, SliceBound(end, Len(tokens)))

\* A loop that moves the window on without overlap
NextStartNoOverlap(end, chunk_overlap) == end

\* start = end - chunk_overlap
NextStart(end, chunk_overlap) == end - chunk_overlap

\* A call of chunk_text about to run; starts is the history of window starts
ChunkTextCall(text, chunk_size, chunk_overlap) ==
  [fn |-> "chunk_text", pc |-> "begin", text |-> text, chunk_size |-> chunk_size,
   chunk_overlap |-> chunk_overlap, tokens |-> << >>, start |-> 0,
   chunks |-> << >>, starts |-> << >>]

\* Tokenize; a text of at most chunk_size tokens is returned as it is
ChunkTextBegin ==
  /\ call.fn = "chunk_text"
  /\ call.pc = "begin"
  /\ LET tokens == Encode(call.text)
     IN call' = IF Len(tokens) <= call.chunk_size
                THEN [call EXCEPT !.pc = "returned", !.tokens = tokens, !.chunks = <<call.text>>]
                ELSE [call EXCEPT !.pc = "loop", !.tokens = tokens]
  /\ UNCHANGED <<indexVars, searchVars, chatVars>>

\* One iteration of the while loop
ChunkTextIterate ==
  /\ call.fn = "chunk_text"
  /\ call.pc = "loop"
  /\ Len(call.chunks) < MaxIterations
  /\ LET end == call.start + call.chunk_size
         chunk_tokens == Slice(call.tokens, call.start, end)
         start == NextStart(end, call.chunk_overlap)
     IN call' = [call EXCEPT
          !.chunks = Append(@, Decode(chunk_tokens)),
          !.starts = Append(@, call.start),
          !.start = start,
          !.pc = IF start >= Len(call.tokens) THEN "returned" ELSE "loop"]
  /\ UNCHANGED <<indexVars, searchVars, chatVars>>

InitChunk ==
  /\ chunks = {}
  /\ nextChunkId = 1
  /\ documentRows = [d \in {} |-> 0]
  /\ proc = [p \in {} |-> 0]
  /\ searchRes = NoSearch
  /\ prevSearch = NoSearch
  /\ sessions = {}
  /\ nextSessionId = 1
  /\ messages = {}
  /\ clock = 1
  /\ req = [r \in {} |-> 0]
  /\ ret = NoRet
  /\ \E text \in Texts, chunk_size \in MinChunkSize..MaxChunkSize, chunk_overlap \in 0..MaxOverlap :
       call = ChunkTextCall(text, chunk_size, chunk_overlap)

NextChunk == ChunkTextBegin \/ ChunkTextIterate

SpecChunk == InitChunk /\ [][NextChunk]_vars

\* ---- C17 ----
\* C17: every iteration of the token loop of chunk_text moves the window
\* start strictly forward, for every text, chunk_size and chunk_overlap the
\* request schema admits, and the loop has ended once the start has moved
\* as often as the text has tokens.
C17_Iteration ==
  (call.pc = "loop" /\ call'.chunks # call.chunks) =>
     /\ call'.start > call.start
     /\ Len(call'.chunks) <= Len(call.tokens)

C17_ChunkTextProgress == [][C17_Iteration]_vars

\* ---- C18 ----
\* C18: a text of at most chunk_size tokens gives the one chunk equal to
\* the text; a longer text with chunk_overlap < chunk_size gives chunks of
\* at most chunk_size tokens whose windows start chunk_size - chunk_overlap
\* apart, and the first chunk's tokens followed by each later chunk's
\* tokens behind its first chunk_overlap ones are the tokens of the text.
RECURSIVE NonOverlapping(_, _)
NonOverlapping(texts, chunk_overlap) ==
  IF texts = << >> THEN << >>
  ELSE LET tokens == Encode(Head(texts))
       IN SubSeq(tokens, chunk_overlap + 1, Len(tokens))
            \o NonOverlapping(Tail(texts), chunk_overlap)

C18_LosslessCover ==
  (call.pc = "returned" /\ call.chunk_overlap < call.chunk_size) =>
    IF Len(Encode(call.text)) <= call.chunk_size
    THEN call.chunks = <<call.text>>
    ELSE /\ \A i \in 1..Len(call.chunks) : Len(Encode(call.chunks[i])) <= call.chunk_size
         /\ \A i \in 1..Len(call.starts) :
              call.starts[i] = (i - 1) * (call.chunk_size - call.chunk_overlap)
         /\ Encode(call.chunks[1]) \o NonOverlapping(Tail(call.chunks), call.chunk_overlap)
              = Encode(call.text)

\* The case of C18: a text cut into three or more overlapping chunks, one
\* of them holding the two-character token.
C18_Witness ==
  /\ call.pc = "returned"
  /\ call.chunk_overlap > 0
  /\ call.chunk_overlap < call.chunk_size
  /\ Len(call.chunks) >= 3
  /\ "ab" \in Range(call.tokens)

\* ------------------------------------------- generate_embeddings_batch
MaxTexts == 5               \* texts of one generate_embeddings_batch call
MaxBatchSize == 3           \* batch_size runs from 1 to here

\* A call of generate_embeddings_batch about to run
EmbedBatchCall(texts, batch_size, outcomes) ==
  [fn |-> "generate_embeddings_batch", pc |-> "begin", texts |-> texts,
   batch_size |-> batch_size, outcomes |-> outcomes, embeddings |-> << >>]

\* The call runs and returns its list
EmbedBatchReturn ==
  /\ call.fn = "generate_embeddings_batch"
  /\ call.pc = "begin"
  /\ call' = [call EXCEPT !.pc = "returned",
                          !.embeddings = GenerateEmbeddingsBatch(call.texts, call.batch_size,
                                                                 call.outcomes)]
  /\ UNCHANGED <<indexVars, searchVars, chatVars>>

InitBatch ==
  /\ chunks = {}
  /\ nextChunkId = 1
  /\ documentRows = [d \in {} |-> 0]
  /\ proc = [p \in {} |-> 0]
  /\ searchRes = NoSearch
  /\ prevSearch = NoSearch
  /\ sessions = {}
  /\ nextSessionId = 1
  /\ messages = {}
  /\ clock = 1
  /\ req = [r \in {} |-> 0]
  /\ ret = NoRet
  /\ \E n \in 0..MaxTexts, batch_size \in 1..MaxBatchSize :
       \E outcomes \in [1..NumBatches(n, batch_size) -> BatchOutcomes] :
         call = EmbedBatchCall(SourceChunks(n), batch_size, outcomes)

NextBatch == EmbedBatchReturn

SpecBatch == InitBatch /\ [][NextBatch]_vars

\* ---- C19 ----
\* C19: the list generate_embeddings_batch returns is as long as its input,
\* and slot k holds the vector of text k when the provider call of the
\* batch text k is in succeeded, null otherwise, for every batch size.
BatchOf(k, batch_size) == ((k - 1) \div batch_size) + 1

C19_BatchSameLengthAndOrder ==
  (call.fn = "generate_embeddings_batch" /\ call.pc = "returned") =>
    /\ Len(call.embeddings) = Len(call.texts)
    /\ \A k \in 1..Len(call.texts) :
         call.embeddings[k] =
           IF call.outcomes[BatchOf(k, call.batch_size)] = "ok"
           THEN EmbeddingOf(call.texts[k]) ELSE None

\* The case of C19: three batches, the last one short, the middle one
\* failed and the batch after it succeeded.
C19_Witness ==
  /\ call.fn = "generate_embeddings_batch"
  /\ call.pc = "returned"
  /\ Len(call.outcomes) = 3
  /\ Len(call.texts) % call.batch_size # 0
  /\ call.outcomes[1] = "ok"
  /\ call.outcomes[2] = "raises"
  /\ call.outcomes[3] = "ok"
  /\ call.embeddings[Len(call.texts)] # None

\* ---- C20 ----
\* C20: a processing whose embedding failed for some or all chunks and that
\* ran to completion undisturbed has stored every chunk of the document,
\* each with the embedding generate_embeddings_batch gave it (null for the
\* failed ones); and no search on any reachable index returns a chunk whose
\* embedding is null.
C20_NullEmbeddingsStoredNotSearched ==
  /\ \A p \in Procs :
       (proc[p].pc = "completed" /\ proc[p].undisturbed) =>
         /\ Len(proc[p].embeddings) = Len(proc[p].chunks)
         /\ \A i \in 1..Len(proc[p].chunks) :
              \E c \in ChunksOf(chunks, proc[p].document_id) :
                /\ c.chunk_index = i - 1
                /\ c.content = proc[p].chunks[i]
                /\ c.embedding = proc[p].embeddings[i]
  /\ \A q \in Queries, document_ids \in Filters :
       \A result \in SearchSimilarChunks(chunks, q, MaxStore, 0, document_ids) :
         \A k \in 1..Len(result) : result[k].chunk.embedding # None

\* The case of C20: a completed processing in which one chunk was embedded
\* and another was left with a null embedding, both stored.
C20_Witness ==
  \E p \in Procs :
    /\ proc[p].pc = "completed"
    /\ proc[p].undisturbed
    /\ \E i, j \in 1..Len(proc[p].chunks) :
         proc[p].embeddings[i] # None /\ proc[p].embeddings[j] = None
    /\ \E c \in ChunksOf(chunks, proc[p].document_id) : c.embedding = None
    /\ \E q \in Queries : \E result \in SearchSimilarChunks(chunks, q, MaxStore, 0, {}) :
         result # << >>

\* ---- C21 ----
\* C21: every message row belongs to a session row that exists, and
\* get_messages returns nothing for a session id that has no row, in every
\* reachable state: also after the owner deleted a session on which a chat
\* request was in flight and the request went on to its persist step.
C21_NoOrphanMessages ==
  /\ \A m \in messages : \E s \in sessions : s.id = m.session_id
  /\ \A id \in 1..MaxSessions, u \in Users :
       (~ \E s \in sessions : s.id = id) =>
         GetMessages(sessions, messages, id, u) = << >>

\* The case of C21: the owner deleted the session while a request on it
\* was generating; the request then reached message_stop and its commit
\* failed.
C21_Witness ==
  \E r \in Requests :
    /\ req[r].owned
    /\ req[r].persistence = "failed"
    /\ "content" \in Types(req[r].events)
    /\ ~ SessionExists(req[r].session_id)
    /\ ret.op = "delete_session"
    /\ ret.session_id = req[r].session_id
    /\ ret.result = TRUE

\* --------------------------------------- _cosine_similarity on floats
MaxDim == 2                 \* vectors have 1..MaxDim components
MaxComponent == 2           \* components run from -MaxComponent to here
Prec == 1000                \* a float is kept to 1/Prec; each operation rounds

\* a / b rounded to the nearest integer, b > 0
RoundDiv(a, b) == (2 * a + b) \div (2 * b)

\* The float operations of the function: product, quotient and ** 0.5, each
\* rounded to the precision
FMul(a, b) == RoundDiv(a * b, Prec)
FDiv(a, b) == IF b > 0 THEN RoundDiv(a * Prec, b) ELSE -RoundDiv(a * Prec, -b)
\* The largest r in lo..hi with r * r <= n, by bisection
RECURSIVE FloorSqrt(_, _, _)
FloorSqrt(n, lo, hi) ==
  IF lo = hi THEN lo
  ELSE LET mid == (lo + hi + 1) \div 2
       IN IF mid * mid <= n THEN FloorSqrt(n, mid, hi) ELSE FloorSqrt(n, lo, mid - 1)

FSqrt(a) ==
  LET lo == FloorSqrt(a * Prec, 0, IF a > Prec THEN a ELSE Prec)
  IN IF a * Prec - lo * lo <= (lo + 1) * (lo + 1) - a * Prec THEN lo ELSE lo + 1

\* sum(a * b for a, b in zip(vec1, vec2)) on floats
RECURSIVE FDotUpTo(_, _, _)
FDotUpTo(a, b, n) ==
  IF n = 0 THEN 0 ELSE FDotUpTo(a, b, n - 1) + FMul(a[n] * Prec, b[n] * Prec)

\* EmbeddingService._cosine_similarity as the interpreter computes it, the
\* result in units of 1/Prec
CosineSimilarityFloat(vec1, vec2) ==
  IF Len(vec1) # Len(vec2) THEN 0
  ELSE LET dot_product == FDotUpTo(vec1, vec2, Len(vec1))
           magnitude1 == FSqrt(FDotUpTo(vec1, vec1, Len(vec1)))
           magnitude2 == FSqrt(FDotUpTo(vec2, vec2, Len(vec2)))
       IN IF magnitude1 = 0 \/ magnitude2 = 0 THEN 0
          ELSE FDiv(dot_product, FMul(magnitude1, magnitude2))

FloatVecs == UNION {[1..n -> (-MaxComponent)..MaxComponent] : n \in 1..MaxDim}

Negated(v) == [i \in 1..Len(v) |-> -v[i]]
IsZero(v) == \A i \in 1..Len(v) : v[i] = 0

\* A call of _cosine_similarity about to run
CosineCall(vec1, vec2) ==
  [fn |-> "_cosine_similarity", pc |-> "begin", vec1 |-> vec1, vec2 |-> vec2, result |-> 0]

\* The call returns
CosineReturn ==
  /\ call.fn = "_cosine_similarity"
  /\ call.pc = "begin"
  /\ call' = [call EXCEPT !.pc = "returned",
                          !.result = CosineSimilarityFloat(call.vec1, call.vec2)]
  /\ UNCHANGED <<indexVars, searchVars, chatVars>>

InitCosine ==
  /\ chunks = {}
  /\ nextChunkId = 1
  /\ documentRows = [d \in {} |-> 0]
  /\ proc = [p \in {} |-> 0]
  /\ searchRes = NoSearch
  /\ prevSearch = NoSearch
  /\ sessions = {}
  /\ nextSessionId = 1
  /\ messages = {}
  /\ clock = 1
  /\ req = [r \in {} |-> 0]
  /\ ret = NoRet
  /\ \E vec1 \in FloatVecs, vec2 \in FloatVecs : call = CosineCall(vec1, vec2)

NextCosine == CosineReturn

SpecCosine == InitCosine /\ [][NextCosine]_vars

\* ---- C22 ----
\* C22: _cosine_similarity returns 1 for two equal nonzero vectors, -1 for
\* a nonzero vector and its negation, the same value with its arguments
\* swapped, and 0 when a vector has zero magnitude or the lengths differ.
C22_CosineLaws ==
  (call.fn = "_cosine_similarity" /\ call.pc = "returned") =>
    /\ (call.vec1 = call.vec2 /\ ~IsZero(call.vec1)) => call.result = Prec
    /\ (call.vec2 = Negated(call.vec1) /\ ~IsZero(call.vec1)) => call.result = -Prec
    /\ call.result = CosineSimilarityFloat(call.vec2, call.vec1)
    /\ (IsZero(call.vec1) \/ IsZero(call.vec2) \/ Len(call.vec1) # Len(call.vec2)) =>
         call.result = 0

\* ------------------------------- two chat requests on the same session
\* User 1 owns session 1 and sends two messages to it in direct mode, the
\* second possibly before the first is answered; embedding, index, web
\* search, provider and database all work
ConvRequests == {1, 2}
ConvMessage(r) == IF r = 1 THEN "hello" ELSE "krs 61.870"

InitConv ==
  /\ chunks = ChatIndex
  /\ nextChunkId = 4
  /\ documentRows = [d \in {} |-> 0]
  /\ proc = [p \in {} |-> 0]
  /\ searchRes = NoSearch
  /\ prevSearch = NoSearch
  /\ sessions = {SessionRow(1, 1, 1)}
  /\ nextSessionId = 2
  /\ messages = {}
  /\ clock = 2
  /\ req = [r \in ConvRequests |-> IdleReq]
  /\ ret = NoRet
  /\ call = NoCall

NextConv ==
  \/ \E r \in ConvRequests : StreamBegin(r, "direct", 1, 1, ConvMessage(r))
  \/ \E r \in ConvRequests : DirectRetrieve(r, TRUE)
  \/ \E r \in ConvRequests : DirectWebSearch(r, "results")
  \/ \E r \in ConvRequests : DirectCite(r)
  \/ \E r \in ConvRequests : DirectOpenStream(r)
  \/ \E r \in ConvRequests : ProviderDelta(r)
  \/ \E r \in ConvRequests : DirectFinish(r)

SpecConv == InitConv /\ [][NextConv]_vars

\* ---- C23 ----
\* C23: on the step that builds a request's conversation, the conversation
\* is the turns of every message get_messages returns for the session
\* except the request's own user message, oldest first, followed by the one
\* turn that carries the retrieved context and the literal question.
C23_Build ==
  \A r \in DOMAIN req :
    (req[r].conversation = << >> /\ req'[r].conversation # << >>) =>
      LET msgs == GetMessages(sessions, messages, req[r].session_id, req[r].user_id)
          Other(m) == ~(m.role = "user" /\ m.content = <<req[r].user_message>>)
      IN req'[r].conversation =
           TurnsOf(SelectSeq(msgs, Other)) \o
             <<Turn("user", <<req[r].user_message>>,
                    [docs |-> req'[r].relevant_docs, web |-> req'[r].web_results])>>

C23_ConversationIsHistoryPlusTurn == [][C23_Build]_vars

\* ---- C24 ----
\* C24: in every committed state of document_chunks no two rows of the
\* same document carry the same chunk_index, also while two process
\* requests for the document interleave their deletes and inserts.
C24_ChunkIndexUnique ==
  \A c1 \in chunks : \A c2 \in chunks :
    (c1.document_id = c2.document_id /\ c1.chunk_index = c2.chunk_index)
      => c1.id = c2.id

LoopTasks == {1, 2}

\* failed counts the batches whose slots generate_embeddings_batch filled
\* with None
NewTask ==
  [kind |-> "none", pc |-> "new", batch |-> 0, batches |-> 0, failed |-> 0,
   deltas |-> 0]

Loop(thread, tasks) == [fn |-> "loop", thread |-> thread, tasks |-> tasks]

\* stream_chat_response from its start to `await asyncio.sleep(0)`
ChatArrive(t) ==
  /\ call.fn = "loop"
  /\ call.thread = NULL
  /\ call.tasks[t].pc = "new"
  /\ call' = Loop(NULL, [call.tasks EXCEPT ![t] = [NewTask EXCEPT !.kind = "chat",
                                                                 !.pc = "yielded"]])
  /\ UNCHANGED <<indexVars, searchVars, chatVars>>

\* Resumed after the sleep: retrieve_relevant_documents calls
\* generate_query_embedding, a plain call of the synchronous client
ChatQueryEmbeddingCall(t) ==
  /\ call.fn = "loop"
  /\ call.thread = NULL
  /\ call.tasks[t].pc = "yielded"
  /\ call' = Loop(t, [call.tasks EXCEPT ![t].pc = "query_embedding"])
  /\ UNCHANGED <<indexVars, searchVars, chatVars>>

\* client.embed returns; search, context and conversation follow without
\* an await, then the coroutine awaits the provider's stream
ChatQueryEmbeddingReturn(t) ==
  /\ call.fn = "loop"
  /\ call.thread = t
  /\ call.tasks[t].pc = "query_embedding"
  /\ call' = Loop(NULL, [call.tasks EXCEPT ![t].pc = "streaming"])
  /\ UNCHANGED <<indexVars, searchVars, chatVars>>

\* One turn of `async for event in stream`: resumed with a delta, yields
\* it, awaits the next event
ChatStreamDelta(t) ==
  /\ call.fn = "loop"
  /\ call.thread = NULL
  /\ call.tasks[t].pc = "streaming"
  /\ call.tasks[t].deltas < MaxDeltas
  /\ call' = Loop(NULL, [call.tasks EXCEPT ![t].deltas = @ + 1])
  /\ UNCHANGED <<indexVars, searchVars, chatVars>>

\* The stream ends: the assistant message is saved, done is yielded
ChatStreamEnd(t) ==
  /\ call.fn = "loop"
  /\ call.thread = NULL
  /\ call.tasks[t].pc = "streaming"
  /\ call' = Loop(NULL, [call.tasks EXCEPT ![t].pc = "done"])
  /\ UNCHANGED <<indexVars, searchVars, chatVars>>

\* process_document, an `async def` without an await: extraction, chunking
\* into n chunks and the delete run on, and generate_embeddings_batch calls
\* client.embed for the first batch
ProcessArrive(t, n) ==
  /\ call.fn = "loop"
  /\ call.thread = NULL
  /\ call.tasks[t].pc = "new"
  /\ call' = Loop(t, [call.tasks EXCEPT ![t] =
                        [NewTask EXCEPT !.kind = "process", !.pc = "batch_embedding",
                                        !.batch = 1,
                                        !.batches = NumBatches(n, BatchSize)]])
  /\ UNCHANGED <<indexVars, searchVars, chatVars>>

\* After the last batch the store loop and the final commit run on and the
\* handler returns
AfterBatch(t, failed) ==
  IF call.tasks[t].batch < call.tasks[t].batches
  THEN Loop(t, [call.tasks EXCEPT ![t].pc = "batch_embedding", ![t].batch = @ + 1,
                                  ![t].failed = @ + failed])
  ELSE Loop(NULL, [call.tasks EXCEPT ![t].pc = "done", ![t].failed = @ + failed])

\* client.embed returns for a batch: time.sleep(0.1) follows
BatchEmbedReturn(t) ==
  /\ call.fn = "loop"
  /\ call.thread = t
  /\ call.tasks[t].pc = "batch_embedding"
  /\ call' = Loop(t, [call.tasks EXCEPT ![t].pc = "batch_sleep"])
  /\ UNCHANGED <<indexVars, searchVars, chatVars>>

\* client.embed raises for a batch: no sleep, the loop goes on
BatchEmbedRaises(t) ==
  /\ call.fn = "loop"
  /\ call.thread = t
  /\ call.tasks[t].pc = "batch_embedding"
  /\ call' = AfterBatch(t, 1)
  /\ UNCHANGED <<indexVars, searchVars, chatVars>>

\* time.sleep(0.1) returns
BatchSleepReturn(t) ==
  /\ call.fn = "loop"
  /\ call.thread = t
  /\ call.tasks[t].pc = "batch_sleep"
  /\ call' = AfterBatch(t, 0)
  /\ UNCHANGED <<indexVars, searchVars, chatVars>>

InitLoop ==
  /\ chunks = {}
  /\ nextChunkId = 1
  /\ documentRows = [d \in {} |-> 0]
  /\ proc = [p \in {} |-> 0]
  /\ searchRes = NoSearch
  /\ prevSearch = NoSearch
  /\ sessions = {}
  /\ nextSessionId = 1
  /\ messages = {}
  /\ clock = 1
  /\ req = [r \in {} |-> 0]
  /\ ret = NoRet
  /\ call = Loop(NULL, [t \in LoopTasks |-> NewTask])

\* Every step the loop can give task t
TaskStep(t) ==
  \/ ChatArrive(t)
  \/ ChatQueryEmbeddingCall(t)
  \/ ChatQueryEmbeddingReturn(t)
  \/ ChatStreamDelta(t)
  \/ ChatStreamEnd(t)
  \/ \E n \in 1..MaxChunks : ProcessArrive(t, n)
  \/ BatchEmbedReturn(t)
  \/ BatchEmbedRaises(t)
  \/ BatchSleepReturn(t)

NextLoop ==
  \/ \E t \in LoopTasks : ChatArrive(t)
  \/ \E t \in LoopTasks : ChatQueryEmbeddingCall(t)
  \/ \E t \in LoopTasks : ChatQueryEmbeddingReturn(t)
  \/ \E t \in LoopTasks : ChatStreamDelta(t)
  \/ \E t \in LoopTasks : ChatStreamEnd(t)
  \/ \E t \in LoopTasks, n \in 1..MaxChunks : ProcessArrive(t, n)
  \/ \E t \in LoopTasks : BatchEmbedReturn(t)
  \/ \E t \in LoopTasks : BatchEmbedRaises(t)
  \/ \E t \in LoopTasks : BatchSleepReturn(t)

SpecLoop == InitLoop /\ [][NextLoop]_vars

InEmbeddingCall(t) ==
  call.tasks[t].pc \in {"query_embedding", "batch_embedding", "batch_sleep"}

Ready(t) == call.tasks[t].pc \in {"new", "yielded", "streaming"}

\* ---- C26 ----
\* C26: whenever one request is inside an embedding call (the query
\* embedding of a chat request, a batch embedding of a process request or
\* the delay after it) and another request is ready to run, the event loop
\* can give that other request a step.
C26_EmbeddingCallsSuspend ==
  call.fn = "loop" =>
    \A t \in LoopTasks : \A u \in LoopTasks \ {t} :
      (InEmbeddingCall(t) /\ Ready(u)) => ENABLED TaskStep(u)

\* ------------------------------------- chunk_text without the tokenizer
MaxCharLen == 14            \* characters of a text chunked by characters

\* The break patterns of _chunk_by_characters, in the order of its max()
BreakPatterns ==
  <<<<"\n", "\n">>, <<"\n">>, <<".", " ">>, <<"!", " ">>, <<"?", " ">>>>

\* Texts of letters with at most one break pattern somewhere in them
TextWithBreak(n, at, pattern) ==
  [i \in 1..n |-> IF i > at /\ i <= at + Len(pattern) THEN pattern[i - at] ELSE "a"]

CharTexts ==
  {TextWithBreak(n, 0, << >>) : n \in 0..MaxCharLen} \cup
  UNION {UNION {{TextWithBreak(n, at, BreakPatterns[k]) :
                   at \in 0..(n - Len(BreakPatterns[k]))} :
                n \in Len(BreakPatterns[k])..MaxCharLen} : k \in {2, 3}}

\* str.rfind: the highest 0-based index where the pattern begins, else -1
RFind(chunk, pattern) ==
  LET found == {i \in 0..(Len(chunk) - Len(pattern)) :
                  SubSeq(chunk, i + 1, i + Len(pattern)) = pattern}
  IN IF found = {} THEN -1 ELSE CHOOSE i \in found : \A j \in found : j <= i

\* max() of the five rfind results
LastBreak(chunk) ==
  LET found == {RFind(chunk, BreakPatterns[k]) : k \in 1..Len(BreakPatterns)}
  IN CHOOSE i \in found : \A j \in found : j <= i

\* chunk_text when tiktoken.get_encoding raises: the call it makes of
\* _chunk_by_characters(text, chunk_size * 4, chunk_overlap * 4)
ChunkByCharactersCall(text, chunk_size, chunk_overlap) ==
  [fn |-> "_chunk_by_characters", pc |-> "begin", text |-> text,
   chunk_size |-> chunk_size * 4, chunk_overlap |-> chunk_overlap * 4,
   start |-> 0, chunks |-> << >>, last_break |-> -1, cut |-> FALSE]

\* A text of at most chunk_size characters is returned as it is
ChunkByCharactersBegin ==
  /\ call.fn = "_chunk_by_characters"
  /\ call.pc = "begin"
  /\ call' = IF Len(call.text) <= call.chunk_size
             THEN [call EXCEPT !.pc = "returned", !.chunks = <<call.text>>]
             ELSE [call EXCEPT !.pc = "loop"]
  /\ UNCHANGED <<indexVars, searchVars, chatVars>>

\* One iteration of the while loop; last_break and cut are what the
\* iteration found and decided
ChunkByCharactersIterate ==
  /\ call.fn = "_chunk_by_characters"
  /\ call.pc = "loop"
  /\ Len(call.chunks) < MaxIterations
  /\ LET window_end == call.start + call.chunk_size
         window == Slice(call.text, call.start, window_end)
         last_break == IF window_end < Len(call.text) THEN LastBreak(window) ELSE -1
         cut == window_end < Len(call.text) /\ last_break > call.chunk_size \div 2
         chunk == IF cut THEN Slice(window, 0, last_break + 1) ELSE window
         end == IF cut THEN call.start + last_break + 1 ELSE window_end
         start == end - call.chunk_overlap
     IN call' = [call EXCEPT
          !.chunks = Append(@, chunk),
          !.start = start,
          !.last_break = last_break,
          !.cut = cut,
          !.pc = IF start >= Len(call.text) THEN "returned" ELSE "loop"]
  /\ UNCHANGED <<indexVars, searchVars, chatVars>>

InitChars ==
  /\ chunks = {}
  /\ nextChunkId = 1
  /\ documentRows = [d \in {} |-> 0]
  /\ proc = [p \in {} |-> 0]
  /\ searchRes = NoSearch
  /\ prevSearch = NoSearch
  /\ sessions = {}
  /\ nextSessionId = 1
  /\ messages = {}
  /\ clock = 1
  /\ req = [r \in {} |-> 0]
  /\ ret = NoRet
  /\ \E text \in CharTexts, chunk_size \in MinChunkSize..MaxChunkSize :
       \E chunk_overlap \in 0..(chunk_size - 1) :
         call = ChunkByCharactersCall(text, chunk_size, chunk_overlap)

NextChars == ChunkByCharactersBegin \/ ChunkByCharactersIterate

SpecChars == InitChars /\ [][NextChars]_vars

\* ---- C27 ----
\* C27: with the tokenizer unavailable and 0 <= chunk_overlap < chunk_size,
\* every iteration of the character fallback appends a chunk of at most
\* 4 * chunk_size characters, shortens the window only at a break in the
\* trailing half of the window, and leaves the window start strictly
\* greater than it was.
C27_Iteration ==
  (call.fn = "_chunk_by_characters" /\ call.pc = "loop"
     /\ Len(call'.chunks) = Len(call.chunks) + 1) =>
    LET chunk == call'.chunks[Len(call'.chunks)]
    IN /\ Len(chunk) <= call.chunk_size
       /\ call'.cut => /\ 2 * call'.last_break > call.chunk_size
                       /\ Len(chunk) = call'.last_break + 1
       /\ call'.start > call.start

C27_CharacterFallbackProgress == [][C27_Iteration]_vars

\* ---- C28 ----
\* C28: on the step that commits a request's assistant message, in either
\* mode, the row's content is the concatenation in order of the request's
\* content events and its citations column is the list of the request's
\* citation events in emission order, or null when there were none.
RECURSIVE ConcatContent(_)
ConcatContent(events) ==
  IF events = << >> THEN << >>
  ELSE Head(events).content \o ConcatContent(Tail(events))

C28_Persist ==
  \A m \in messages' \ messages :
    m.role = "assistant" =>
      \A r \in DOMAIN req :
        req'[r] # req[r] =>
          LET cited == OfType(req'[r].events, "citation")
          IN /\ m.session_id = req[r].session_id
             /\ m.content = ConcatContent(OfType(req'[r].events, "content"))
             /\ m.citations =
                  IF cited = << >> THEN JsonNull
                  ELSE JsonArray([i \in 1..Len(cited) |-> cited[i].citation])

C28_PersistedEqualsStreamed == [][C28_Persist]_vars

\* The case of C28: an assistant message with content and citations is
\* stored in each mode, and one without citations
C28_StoredWith(mode, null) ==
  \E r \in DOMAIN req : \E m \in messages :
    /\ req[r].mode = mode
    /\ req[r].persistence = "ok"
    /\ m.role = "assistant"
    /\ m.session_id = req[r].session_id
    /\ m.content # << >>
    /\ m.citations.null = null
    /\ ~null => Len(m.citations.value) = Len(OfType(req[r].events, "citation"))

C28_Witness == C28_StoredWith("agent", FALSE)

\* ---- C29 ----
\* C29: once a request's generation has failed, in either mode, the session
\* holds no assistant message and its updated_at is what it was when the
\* session was created, whatever content had been streamed before.
C29_FailedGenerationPersistsNothing ==
  \A r \in DOMAIN req :
    req[r].generation = "failed" =>
      /\ \A m \in messages : m.session_id = req[r].session_id => m.role # "assistant"
      /\ \A s \in sessions : s.id = req[r].session_id => s.updated_at = s.created_at

\* The case of C29: content was streamed, then the generation failed, and
\* the session and the user's message are still there
C29_FailedAfterContent(mode) ==
  \E r \in DOMAIN req :
    /\ req[r].mode = mode
    /\ req[r].generation = "failed"
    /\ OfType(req[r].events, "content") # << >>
    /\ Last(req[r].events).type = "error"
    /\ SessionExists(req[r].session_id)
    /\ \E m \in messages : m.session_id = req[r].session_id /\ m.role = "user"

C29_Witness == C29_FailedAfterContent("direct")

\* ---- C30 ----
\* C30: a process request whose text extraction reports an error or only
\* whitespace ends there: the step that rejects it leaves every chunk row
\* and every document's stored extracted_text as they were, and the
\* request takes no step afterwards.
C30_Rejection ==
  \A p \in DOMAIN proc :
    /\ (proc[p].pc = "idle" /\ proc'[p].pc = "rejected") =>
         /\ chunks' = chunks
         /\ documentRows' = documentRows
    /\ proc[p].pc = "rejected" => proc'[p] = proc[p]

C30_RejectedBeforeAnyWrite == [][C30_Rejection]_vars

\* The case of C30: a document processed before, with chunks and a stored
\* text, and a later request for it that was rejected
C30_Witness ==
  \E p \in DOMAIN proc :
    /\ proc[p].pc = "rejected"
    /\ ChunksOf(chunks, proc[p].document_id) # {}
    /\ documentRows[proc[p].document_id].extracted_text # NULL

====
